---- MODULE Spec2Model ----
(***************************************************************************)
(* Model of the multi-provider translation orchestrator of ananas-api:     *)
(* handleMultiRequest (src/src/multi_translator.js) and assignTranslators  *)
(* (src/src/lang_utils.js, and the google-aware draft of the same function *)
(* in src/unnamed/part_000).                                               *)
(***************************************************************************)
EXTENDS Integers, Sequences, FiniteSets, TLC

\* JavaScript's undefined / null / a missing property.
NULL == "<null>"

(***************************************************************************)
(* Bounds of the model.                                                    *)
(***************************************************************************)
MaxTargets == 2
MaxCsvLen == 2

(***************************************************************************)
(* State of one handleMultiRequest invocation.                             *)
(***************************************************************************)
VARIABLES
  impl,                 \* the assignTranslators draft in use
  route,                \* the handler index.js routed the request to
  env,                  \* the providers that are configured
  data,                 \* the parsed request body
  pc,                   \* position in handleMultiRequest
  response,             \* the Response returned, or the exception thrown
  tgt_langs,            \* tgt_langs after parsing
  detectionPreferences,
  translatorPriority,
  detectionResults,     \* detectionResults[i]: what detector i resolved to
  detectionArrival,     \* the first detector to settle with a language, 0 if none yet
  languageDetections,
  primaryDetectedLang,
  assignment,
  translatorOrder,
  primaryResults,
  finalTranslations,
  failedLanguages,
  metadata,
  fallbackAssignment,
  fallbackOrder,
  fallbackResults,
  calls,                \* every adapter invocation made, in order
  sourceDetection,      \* adapter route: the reply to detect_language
  upstream,             \* adapter route: the replies to the per-language calls
  adapterResult,        \* adapter route: what the adapter returned
  dataset,              \* the static dataset the modules were loaded with
  normCall,             \* the code normalisation applied last
  assignCalls,          \* the results of the assignTranslators calls made directly
  parked,               \* the locals of the invocation that is not running
  running               \* which of two concurrent invocations is running

(***************************************************************************)
(* Generic helpers.                                                        *)
(***************************************************************************)
Range(s) == {s[i] : i \in 1..Len(s)}

SeqsUpTo(S, n) == UNION {[1..k -> S] : k \in 0..n}

\* The least index of a non-empty set of indexes.
First(S) == CHOOSE i \in S : \A j \in S : i <= j

(***************************************************************************)
(* Static data.  The JSON data files are configuration; the model carries  *)
(* a small registry with one language per capability profile.             *)
(*   spa: every provider      nob: deepl, openai                           *)
(*   lat: google, openai      nav: openai only      zzz: not in registry   *)
(* and eng, the source language of the requests, which every provider      *)
(* knows.                                                                  *)
(***************************************************************************)
wikidataLanguages ==
  << [iso |-> "eng", iso1 |-> "en"],
     [iso |-> "spa", iso1 |-> "es"],
     [iso |-> "nob", iso1 |-> "nb"],
     [iso |-> "lat", iso1 |-> "la"],
     [iso |-> "nav", iso1 |-> "nv"] >>

\* deepl-targets.json: provider codes, as the parts around '-'.
deeplTargets == << <<"ES">>, <<"NB">>, <<"EN", "GB">>, <<"EN", "US">> >>

\* deepl-sources.json: provider codes.
deeplSources == {"ES", "NB", "EN"}

\* m2m-support.json: keys are 2-letter codes.
m2mSupport == {"es", "en"}

\* google-translate-support.json: keys are 3-letter codes.
googleTranslateSupport == {"spa", "lat", "eng"}

\* googleTranslateSupport[iso3Code]: the provider code of a key, else undefined.
getGoogleTranslateCode(iso3Code) ==
  CASE iso3Code = "spa" -> "es"
    [] iso3Code = "lat" -> "la"
    [] iso3Code = "eng" -> "en"
    [] OTHER -> NULL

\* The same lookup in the support table of a dataset.
GoogleCodeIn(sd, iso3Code) ==
  LET hits == SelectSeq(sd.google, LAMBDA e : e.key = iso3Code)
  IN IF hits = <<>> THEN NULL ELSE hits[Len(hits)].value

\* google-translate-support.json as its entries [key, value], in file order.
googleTranslateSupportEntries ==
  << [key |-> "spa", value |-> "es"],
     [key |-> "lat", value |-> "la"],
     [key |-> "eng", value |-> "en"] >>

\* The static dataset the modules import.
StaticData ==
  [languages |-> wikidataLanguages, deeplTargets |-> deeplTargets,
   m2m |-> m2mSupport, google |-> googleTranslateSupportEntries]

\* String.prototype.toLowerCase on the codes that occur.
toLowerCase(s) ==
  CASE s = "ES" -> "es"
    [] s = "ZH" -> "zh"
    [] s = "NB" -> "nb"
    [] s = "EN" -> "en"
    [] s = "GB" -> "gb"
    [] s = "US" -> "us"
    [] s = "toString" -> "tostring"
    [] OTHER -> s

\* String.prototype.toUpperCase on the codes that occur.
toUpperCase(s) ==
  CASE s = "es" -> "ES"
    [] s = "zh" -> "ZH"
    [] s = "nb" -> "NB"
    [] s = "en" -> "EN"
    [] s = "la" -> "LA"
    [] s = "nv" -> "NV"
    [] s = "constructor" -> "CONSTRUCTOR"
    [] s = "toString" -> "TOSTRING"
    [] OTHER -> s

\* The reduce of lang_utils.js:5-10 over the languages of a dataset: a later
\* entry with the same iso overwrites an earlier one.
Iso3ToIso2In(sd, code) ==
  LET hits == SelectSeq(sd.languages,
                     LAMBDA l : l.iso # NULL /\ l.iso1 # NULL /\ l.iso = code)
  IN IF hits = <<>> THEN NULL ELSE hits[Len(hits)].iso1

\* The reduce of lang_utils.js:12-17 read as in getISO3FromISO2: a later
\* entry with the same iso1 overwrites an earlier one.
Iso2ToIso3In(sd, iso2) ==
  LET hits == SelectSeq(sd.languages,
                     LAMBDA l : l.iso # NULL /\ l.iso1 # NULL
                                /\ toUpperCase(l.iso1) = toUpperCase(iso2))
  IN IF hits = <<>> THEN NULL ELSE hits[Len(hits)].iso

\* ISO3_TO_ISO2_MAP[code]: the 2-letter code of a registry entry, else undefined.
ISO3_TO_ISO2_MAP(code) == Iso3ToIso2In(StaticData, code)

\* ISO2_TO_ISO3_MAP[iso2.toUpperCase()] || null (lang_utils.js:12-25).
getISO3FromISO2(iso2) == Iso2ToIso3In(StaticData, iso2)

getISO2ForModel(iso3) == ISO3_TO_ISO2_MAP(iso3)

\* Build sets of supported codes (lang_utils.js:27-36, part_000:18-28) from a
\* dataset.
DeeplSupportedIn(sd) ==
  {toLowerCase(Head(sd.deeplTargets[i])) : i \in 1..Len(sd.deeplTargets)}
GoogleSupportedIn(sd) == {sd.google[i].key : i \in 1..Len(sd.google)}
OpenaiSupportedIn(sd) == {sd.languages[i].iso : i \in 1..Len(sd.languages)} \ {NULL}

\* wikidataLanguages.map(l => l.iso).filter(Boolean)
AllIsoIn(sd) ==
  SelectSeq([i \in 1..Len(sd.languages) |-> sd.languages[i].iso], LAMBDA c : c # NULL)

deeplSupported == DeeplSupportedIn(StaticData)
m2mSupported == m2mSupport
googleSupported == googleTranslateSupport
openaiSupported == OpenaiSupportedIn(StaticData)

AllIso == AllIsoIn(StaticData)

(***************************************************************************)
(* assignTranslators, draft of src/src/lang_utils.js: no google bucket and *)
(* no google test in the find predicate.  A missing or empty target list   *)
(* (passed here as the empty sequence) stands for every registry language. *)
(***************************************************************************)
SupportsLangUtilsIn(sd, tr, code) ==
  LET iso2 == Iso3ToIso2In(sd, code) IN
    \/ tr = "deepl" /\ iso2 # NULL /\ toLowerCase(iso2) \in DeeplSupportedIn(sd)
    \/ tr = "m2m" /\ iso2 # NULL /\ iso2 \in sd.m2m
    \/ tr = "openai" /\ code \in OpenaiSupportedIn(sd)

\* The google-aware predicate of src/unnamed/part_000.
SupportsPart000In(sd, tr, code) ==
  LET iso2 == Iso3ToIso2In(sd, code) IN
    \/ tr = "deepl" /\ iso2 # NULL /\ toLowerCase(iso2) \in DeeplSupportedIn(sd)
    \/ tr = "google" /\ code \in GoogleSupportedIn(sd)
    \/ tr = "m2m" /\ iso2 # NULL /\ iso2 \in sd.m2m
    \/ tr = "openai" /\ code \in OpenaiSupportedIn(sd)

SupportsLangUtils(tr, code) == SupportsLangUtilsIn(StaticData, tr, code)
SupportsPart000(tr, code) == SupportsPart000In(StaticData, tr, code)

\* The predicate of the draft in use.
SupportsIn(sd, i, tr, code) ==
  IF i = "part_000" THEN SupportsPart000In(sd, tr, code)
  ELSE SupportsLangUtilsIn(sd, tr, code)

Supports(i, tr, code) == SupportsIn(StaticData, i, tr, code)

\* The for-loop over tgt_langs: result[assigned].push(code) or unsupported.
RECURSIVE AssignLoopIn(_, _, _, _, _)
AssignLoopIn(sd, codes, translator_order, result, draft) ==
  IF codes = <<>> THEN result
  ELSE LET code == Head(codes)
           \* translator_order.find(tr => ...): the first that supports code
           hits == {i \in 1..Len(translator_order) :
                      SupportsIn(sd, draft, translator_order[i], code)}
           assigned == IF hits = {} THEN NULL ELSE translator_order[First(hits)]
           bucket == IF assigned # NULL THEN assigned ELSE "unsupported"
       IN AssignLoopIn(sd, Tail(codes), translator_order,
                       [result EXCEPT ![bucket] = Append(@, code)], draft)

AssignLoop(codes, translator_order, result, draft) ==
  AssignLoopIn(StaticData, codes, translator_order, result, draft)

\* AssignResult with the result object hoisted to module scope: a call goes
\* on filling the buckets of the call before.
AssignResult_ModuleScope(i) ==
  IF assignCalls # <<>> THEN assignCalls[Len(assignCalls)].result
  ELSE IF i = "part_000"
  THEN [b \in {"deepl", "google", "m2m", "openai", "unsupported"} |-> <<>>]
  ELSE [b \in {"deepl", "m2m", "openai", "unsupported"} |-> <<>>]

\* const result = { deepl: [], m2m: [], openai: [], unsupported: [] }, with
\* google in part_000: a fresh object in every call.
AssignResult(i) ==
  IF i = "part_000"
  THEN [b \in {"deepl", "google", "m2m", "openai", "unsupported"} |-> <<>>]
  ELSE [b \in {"deepl", "m2m", "openai", "unsupported"} |-> <<>>]

\* assignTranslators of draft i over a dataset.
assignTranslatorsIn(sd, i, targets, translator_order) ==
  LET codes == IF targets = <<>> THEN AllIsoIn(sd) ELSE targets
  IN AssignLoopIn(sd, codes, translator_order, AssignResult(i), i)

assignTranslators(targets, translator_order) ==
  assignTranslatorsIn(StaticData, "lang_utils", targets, translator_order)

assignTranslatorsPart000(targets, translator_order) ==
  assignTranslatorsIn(StaticData, "part_000", targets, translator_order)

(***************************************************************************)
(* JavaScript objects: functions on a finite set of keys.                  *)
(***************************************************************************)
EmptyObj == [k \in {} |-> NULL]

Put(o, k, v) == [x \in DOMAIN o \cup {k} |-> IF x = k THEN v ELSE o[x]]

\* Object.assign(a, b)
ObjectAssign(a, b) ==
  [x \in DOMAIN a \cup DOMAIN b |-> IF x \in DOMAIN b THEN b[x] ELSE a[x]]

\* The elements of arr without repetition, in order of first occurrence
\* (the key order of an object filled in a loop over arr).
RECURSIVE Dedup(_)
Dedup(arr) ==
  IF arr = <<>> THEN <<>>
  ELSE LET front == Dedup(SubSeq(arr, 1, Len(arr) - 1))
           last == arr[Len(arr)]
       IN IF last \in Range(front) THEN front ELSE Append(front, last)

(***************************************************************************)
(* Parsing of data.tgt_langs (multi_translator.js:21-23).  A csv string is *)
(* a sequence of tokens: "," and " " and identifier words.                 *)
(***************************************************************************)
\* String.prototype.split(","): the pieces between the commas.
RECURSIVE Split(_)
Split(toks) ==
  LET commas == {i \in 1..Len(toks) : toks[i] = ","} IN
    IF commas = {} THEN <<toks>>
    ELSE LET c == CHOOSE i \in commas : \A j \in commas : i <= j
         IN <<SubSeq(toks, 1, c - 1)>> \o Split(SubSeq(toks, c + 1, Len(toks)))

\* String.prototype.trim(): drop leading and trailing blanks.
RECURSIVE Trim(_)
Trim(toks) ==
  IF toks = <<>> THEN <<>>
  ELSE IF Head(toks) = " " THEN Trim(Tail(toks))
  ELSE IF toks[Len(toks)] = " " THEN Trim(SubSeq(toks, 1, Len(toks) - 1))
  ELSE toks

\* The string a token sequence spells.
RECURSIVE Spell(_)
Spell(toks) == IF toks = <<>> THEN "" ELSE Head(toks) \o Spell(Tail(toks))

\* ParseTargets without the trim of each piece.
ParseTargets_NoTrim(raw) ==
  CASE raw.kind = "string" ->
         LET pieces == Split(raw.val)
         IN [isArray |-> TRUE,
             val |-> [i \in 1..Len(pieces) |-> Spell(pieces[i])]]
    [] raw.kind = "array" -> [isArray |-> TRUE, val |-> raw.val]
    [] OTHER -> [isArray |-> FALSE, val |-> <<>>]

\* [isArray, val]: tgt_langs after lines 21-23.
ParseTargets(raw) ==
  CASE raw.kind = "string" ->
         LET pieces == Split(raw.val)
         IN [isArray |-> TRUE,
             val |-> [i \in 1..Len(pieces) |-> Spell(Trim(pieces[i]))]]
    [] raw.kind = "array" -> [isArray |-> TRUE, val |-> raw.val]
    [] OTHER -> [isArray |-> FALSE, val |-> <<>>]

(***************************************************************************)
(* Detection preferences and translator priority (lines 37-83).            *)
(***************************************************************************)
validDetectors == <<"google", "deepl", "m2m", "openai">>

ParseDetectionPreferences(d) ==
  IF d.detection_preferences.kind # "absent"
  THEN IF d.detection_preferences.kind = "array"
       THEN d.detection_preferences.val
       ELSE <<d.detection_preferences.val>>
  ELSE IF d.detection_preference # NULL
  THEN IF d.detection_preference = "auto" THEN validDetectors
       ELSE <<d.detection_preference>>
  ELSE validDetectors

\* InvalidDetectors validating only the first preference of the list.
InvalidDetectors_FirstOnly(prefs) ==
  SelectSeq(SubSeq(prefs, 1, 1), LAMBDA x : x \notin Range(validDetectors))

InvalidDetectors(prefs) == SelectSeq(prefs, LAMBDA x : x \notin Range(validDetectors))

\* Array.prototype.join(", ")
RECURSIVE Join(_)
Join(arr) ==
  IF arr = <<>> THEN ""
  ELSE IF Len(arr) = 1 THEN arr[1]
  ELSE arr[1] \o ", " \o Join(Tail(arr))

\* The error string of the rejection of lines 63-73.
InvalidDetectorsMessage(invalidDetectors) ==
  "Invalid detection preferences: " \o Join(invalidDetectors)
    \o ". Must be one of: " \o Join(validDetectors)

DefaultPriority == <<"google", "deepl", "m2m", "openai">>

TranslatorPriority(d) ==
  IF d.translators.kind = "array" THEN d.translators.val ELSE DefaultPriority

\* The fallback order taken from the priority of the request.
FallbackPriority_FromRequest == translatorPriority

FallbackPriority == <<"m2m", "google", "deepl", "openai">>

\* The order in which handleMultiRequest reads the buckets of an assignment.
BucketReadOrder == <<"deepl", "google", "m2m", "openai">>

(***************************************************************************)
(* Adapter results as tryTranslator sees them.  A value result[lang] is    *)
(* [t, s, err]: its JavaScript type, its text, and whether the text        *)
(* contains "Error translating".                                           *)
(***************************************************************************)
Undefined == [t |-> "undefined", s |-> "", err |-> FALSE]
EmptyString == [t |-> "string", s |-> "", err |-> FALSE]
ErrorString == [t |-> "string", s |-> "Error translating", err |-> TRUE]
NumberValue == [t |-> "number", s |-> "", err |-> FALSE]

\* The text upstream provider p returns for lang in the given pass.
TextOf(p, pass, lang) == p \o "/" \o pass \o "/" \o lang
TextValue(p, pass, lang) == [t |-> "string", s |-> TextOf(p, pass, lang), err |-> FALSE]

ResultValues(p, pass, lang) ==
  {Undefined, EmptyString, ErrorString, NumberValue, TextValue(p, pass, lang)}

NoMetadata == [present |-> FALSE, src_lang |-> NULL, language_definition |-> NULL,
               detected_source_language |-> NULL]

AdapterMetadata ==
  {NoMetadata,
   [present |-> TRUE, src_lang |-> "fra", language_definition |-> "detected",
    detected_source_language |-> "fra"]}

\* The payloads over the keys: one value per requested language.
RECURSIVE Bodies(_, _, _)
Bodies(p, pass, keys) ==
  IF keys = <<>> THEN {EmptyObj}
  ELSE {Put(b, Head(keys), v) : b \in Bodies(p, pass, Tail(keys)),
                                v \in ResultValues(p, pass, Head(keys))}

\* Everything an adapter call can do: throw, resolve to null, return a
\* response with status >= 400, or return a payload.
AdapterOutcomes(p, pass, langs) ==
  {[kind |-> k, body |-> EmptyObj, metadata |-> NoMetadata] : k \in {"throw", "null", "status"}}
  \cup
  {[kind |-> "ok", body |-> b, metadata |-> m] :
     b \in Bodies(p, pass, Dedup(langs)),
     m \in AdapterMetadata}

Truthy(v) == v.t = "number" \/ (v.t = "string" /\ v.s # "")

(***************************************************************************)
(* Provider adapters.  An adapter is called with req = [text, tgt_langs,   *)
(* src_lang], with the configuration of its provider, and meets the        *)
(* replies of its upstream calls; it returns a Response, or throws.        *)
(*   deepl:  translate_with_deepl of src/unnamed/part_004                  *)
(*   google: translate_with_google of src/src/google_translator.js         *)
(*   m2m:    translate_with_m2m of src/src/m2m_translator.js               *)
(* The openai adapter (openai.js) is not among the sources: the            *)
(* orchestrator meets it as AdapterOutcomes.                               *)
(***************************************************************************)
StringValue(text) == [t |-> "string", s |-> text, err |-> FALSE]

\* The reply of one upstream call: an HTTP error (or a thrown binding
\* call), or a payload with a text and the source language it detected.
HttpError == [ok |-> FALSE, text |-> Undefined, detected |-> NULL]
UpstreamReplies(p, pass, code) ==
  {HttpError} \cup
  {[ok |-> TRUE, text |-> v, detected |-> "EN"] :
     v \in {TextValue(p, pass, code), Undefined, NumberValue}}

\* The sequences of replies to the upstream calls for the codes.
RECURSIVE ReplySeqs(_, _, _)
ReplySeqs(p, pass, codes) ==
  IF codes = <<>> THEN {<<>>}
  ELSE {<<r>> \o rest : r \in UpstreamReplies(p, pass, Head(codes)),
                        rest \in ReplySeqs(p, pass, Tail(codes))}

\* The replies the source detection of the m2m adapter can meet (a DeepL
\* call): an HTTP error, a code of the registry, a code outside it.
DetectReplies(deeplKey) ==
  IF deeplKey THEN {HttpError, [ok |-> TRUE, text |-> Undefined, detected |-> "EN"],
                    [ok |-> TRUE, text |-> Undefined, detected |-> "XX"]}
  ELSE {HttpError}

\* One call to the provider: the target code and the source code sent with it
\* (NULL when the source parameter is left out or null).
UpstreamCall(provider, kind, code, source) ==
  [provider |-> provider, kind |-> kind, target |-> code, source |-> source]

AdapterResponse(status, error, body, errors, meta, ups) ==
  [kind |-> "response", status |-> status, error |-> error, body |-> body,
   errors |-> errors, metadata |-> meta, upstream |-> ups]

AdapterThrows(ups) ==
  [kind |-> "throw", status |-> 0, error |-> "exception", body |-> EmptyObj,
   errors |-> EmptyObj, metadata |-> NoMetadata, upstream |-> ups]

\* AdapterErrors that reports the unsupported source language only.
AdapterErrors_SourceOnly(unsupportedTargets, unsupportedSourceLang) ==
  IF unsupportedSourceLang # NULL
  THEN Put(EmptyObj, "unsupported_source_lang", unsupportedSourceLang)
  ELSE EmptyObj

\* const errors = {}; if (unsupportedTargets.length) ...; if (unsupportedSourceLang) ...
AdapterErrors(unsupportedTargets, unsupportedSourceLang) ==
  LET e1 == IF Len(unsupportedTargets) > 0
            THEN Put(EmptyObj, "unsupported_target_langs", unsupportedTargets)
            ELSE EmptyObj
  IN IF unsupportedSourceLang # NULL
     THEN Put(e1, "unsupported_source_lang", unsupportedSourceLang)
     ELSE e1

\* responseObj[key] is truthy.
HasTruthy(body, key) == key \in DOMAIN body /\ Truthy(body[key])

\* translations.forEach(({lang, text}) => responseObj[KeyOf(lang)] = text)
RECURSIVE PutTranslations(_, _, _)
PutTranslations(body, keys, ups) ==
  IF keys = <<>> THEN body
  ELSE PutTranslations(Put(body, Head(keys), Head(ups).text), Tail(keys), Tail(ups))

\* The first detected source language the replies report, else null.
FirstDetectedSource(ups) ==
  LET hits == {i \in 1..Len(ups) : ups[i].detected # NULL}
  IN IF hits = {} THEN NULL ELSE ups[First(hits)].detected

(***************************************************************************)
(* translate_with_deepl (part_004:116-349).                                *)
(***************************************************************************)
deeplPreferredMap(iso3) ==
  CASE iso3 = "eng" -> "EN-US"
    [] iso3 = "por" -> "PT-BR"
    [] iso3 = "zho" -> "ZH-HANS"
    [] OTHER -> NULL

\* deeplReverseMap without its "EN-GB" entry.
deeplReverseMap_NoBritish(code) ==
  CASE code = "EN-US" -> "eng"
    [] code \in {"PT-PT", "PT-BR"} -> "por"
    [] code \in {"ZH-HANS", "ZH-HANT"} -> "zho"
    [] OTHER -> NULL

deeplReverseMap(code) ==
  CASE code \in {"EN-GB", "EN-US"} -> "eng"
    [] code \in {"PT-PT", "PT-BR"} -> "por"
    [] code \in {"ZH-HANS", "ZH-HANT"} -> "zho"
    [] OTHER -> NULL

getDeepLTargetCode(iso3) ==
  IF deeplPreferredMap(iso3) # NULL THEN deeplPreferredMap(iso3)
  ELSE IF getISO2ForModel(iso3) = NULL THEN NULL
  ELSE toUpperCase(getISO2ForModel(iso3))

getDeepLSourceCode(iso3) ==
  IF getISO2ForModel(iso3) = NULL THEN NULL ELSE toUpperCase(getISO2ForModel(iso3))

\* new Set(deeplTargets.map(l => l.language.toUpperCase()))
deeplSupportedTargetsSet ==
  {IF Len(deeplTargets[i]) = 1 THEN deeplTargets[i][1]
   ELSE deeplTargets[i][1] \o "-" \o deeplTargets[i][2] : i \in 1..Len(deeplTargets)}

\* mapAndFilterLanguages(targetLangs3, getDeepLTargetCode, supportedTargetsSet)
DeeplMapAndFilter(requestedLangs) ==
  LET ok(lang3) == /\ getDeepLTargetCode(lang3) # NULL
                   /\ getDeepLTargetCode(lang3) \in deeplSupportedTargetsSet
      okLangs == SelectSeq(requestedLangs, ok)
  IN [supported |-> [i \in 1..Len(okLangs) |-> getDeepLTargetCode(okLangs[i])],
      unsupported |-> SelectSeq(requestedLangs, LAMBDA l : ~ok(l))]

\* The provider codes of the upstream calls the adapter makes: none when it
\* returns before the calls.
DeeplUpstreamTargets(req, configured) ==
  IF ~configured \/ req.text \in {NULL, ""} THEN <<>>
  ELSE DeeplMapAndFilter(ParseTargets(req.tgt_langs).val).supported

DeeplKey(lang) ==
  IF deeplReverseMap(lang) # NULL THEN deeplReverseMap(lang)
  ELSE IF getISO3FromISO2(lang) # NULL THEN getISO3FromISO2(lang)
  ELSE "unknown_target_" \o lang

translate_with_deepl(req, configured, ups) ==
  LET srcLang3 == req.src_lang
      srcLang2 == IF srcLang3 = NULL THEN NULL ELSE getDeepLSourceCode(srcLang3)
      unsupportedSourceLang ==
        IF srcLang3 # NULL /\ ~(srcLang2 # NULL /\ srcLang2 \in deeplSources)
        THEN srcLang3 ELSE NULL
      targetLangs3 == ParseTargets(req.tgt_langs).val
      filtered == DeeplMapAndFilter(targetLangs3)
      codes == filtered.supported
      sourceLangDeepL == IF srcLang3 # NULL /\ unsupportedSourceLang = NULL
                         THEN srcLang2 ELSE NULL
      made == [i \in 1..Len(codes) |->
                 UpstreamCall("deepl", "translate", codes[i], sourceLangDeepL)]
      body0 == Put(EmptyObj, IF srcLang3 # NULL THEN srcLang3 ELSE "source",
                   StringValue(req.text))
      body1 == PutTranslations(body0, [i \in 1..Len(codes) |-> DeeplKey(codes[i])], ups)
      first == FirstDetectedSource(ups)
      detected3 == IF first = NULL THEN NULL
                   ELSE IF deeplReverseMap(first) # NULL THEN deeplReverseMap(first)
                   ELSE IF getISO3FromISO2(first) # NULL THEN getISO3FromISO2(first)
                   ELSE first
      body2 == IF detected3 # NULL /\ srcLang3 = NULL /\ ~HasTruthy(body1, detected3)
               THEN Put(body1, detected3, StringValue(req.text)) ELSE body1
  IN IF ~configured
     THEN AdapterResponse(500, "DeepL API key not configured.", EmptyObj, EmptyObj,
                          NoMetadata, <<>>)
     ELSE IF req.text \in {NULL, ""}
     THEN AdapterResponse(400, "Missing 'text' field in request body.", EmptyObj,
                          EmptyObj, NoMetadata, <<>>)
     ELSE IF Len(targetLangs3) = 0
     THEN AdapterResponse(400, "No target languages provided.", EmptyObj,
                          AdapterErrors(<<>>, unsupportedSourceLang), NoMetadata, <<>>)
     ELSE IF Len(codes) = 0
     THEN AdapterResponse(400, "No valid target languages provided or mapped.", EmptyObj,
                          AdapterErrors(filtered.unsupported, unsupportedSourceLang),
                          NoMetadata, <<>>)
     ELSE IF \E i \in 1..Len(ups) : ~ups[i].ok
     THEN \* a rejected upstream call rejects Promise.all: the outer catch
          AdapterResponse(500, "Internal server error processing DeepL request.",
                          EmptyObj, EmptyObj, NoMetadata, made)
     ELSE AdapterResponse(200, NULL, body2,
                          AdapterErrors(filtered.unsupported, unsupportedSourceLang),
                          [present |-> TRUE, src_lang |-> srcLang3,
                           language_definition |->
                             IF srcLang3 # NULL THEN "user" ELSE "deepl-auto-detect",
                           detected_source_language |-> detected3],
                          made)

(***************************************************************************)
(* The code normalisation of the adapters over a dataset sd: the provider  *)
(* code an adapter sends for a canonical identifier, and the canonical     *)
(* identifier under which it reports what came back for a provider code.   *)
(***************************************************************************)
\* getDeepLTargetCode (part_004:21-23)
DeeplTargetCodeIn(sd, iso3) ==
  IF deeplPreferredMap(iso3) # NULL THEN deeplPreferredMap(iso3)
  ELSE IF Iso3ToIso2In(sd, iso3) = NULL THEN NULL
  ELSE toUpperCase(Iso3ToIso2In(sd, iso3))

\* new Set(deeplTargets.map(l => l.language.toUpperCase())) (part_004:192)
DeeplTargetSetIn(sd) ==
  {IF Len(sd.deeplTargets[i]) = 1 THEN sd.deeplTargets[i][1]
   ELSE sd.deeplTargets[i][1] \o "-" \o sd.deeplTargets[i][2] :
     i \in 1..Len(sd.deeplTargets)}

\* deeplReverseMap[lang] || getISO3FromISO2(lang) (part_004:299, 316)
DeeplCanonicalIn(sd, code) ==
  IF deeplReverseMap(code) # NULL THEN deeplReverseMap(code)
  ELSE Iso2ToIso3In(sd, code)

\* googleReverseMap (google_translator.js:6-9): forEach over the entries, a
\* later key with the same value overwrites an earlier one.
GoogleReverseIn(sd, code) ==
  LET hits == SelectSeq(sd.google, LAMBDA e : e.value = code)
  IN IF hits = <<>> THEN NULL ELSE hits[Len(hits)].key

\* getISO3FromISO2 of google_translator.js:17-20: find, the first entry.
GoogleFindIso3In(sd, iso2) ==
  LET hits == SelectSeq(sd.languages,
                     LAMBDA l : l.iso1 # NULL /\ toLowerCase(l.iso1) = toLowerCase(iso2))
  IN IF hits = <<>> THEN NULL ELSE hits[1].iso

\* googleReverseMap[lang] || getISO3FromISO2(lang) (google_translator.js:210, 228)
GoogleCanonicalIn(sd, code) ==
  IF GoogleReverseIn(sd, code) # NULL THEN GoogleReverseIn(sd, code)
  ELSE GoogleFindIso3In(sd, code)

\* codeMapping[mapped] of one translate_with_m2m call over the targets
\* originals (m2m_translator.js:73-87): the last original with that code.
M2mCanonicalIn(sd, originals, lang2) ==
  LET hits == {i \in 1..Len(originals) :
                 /\ Iso3ToIso2In(sd, originals[i]) = lang2
                 /\ lang2 \in sd.m2m}
  IN IF hits = {} THEN NULL
     ELSE originals[CHOOSE i \in hits : \A j \in hits : j <= i]

\* The key of a translation that came back for a provider code, and the
\* canonical form of a detected source language (part_004:299-306, 316;
\* google_translator.js:210-217, 228; google_detector.js:69).
InboundIn(sd, provider, use, code) ==
  LET canonical == IF provider = "deepl" THEN DeeplCanonicalIn(sd, code)
                   ELSE GoogleCanonicalIn(sd, code)
  IN IF canonical # NULL THEN canonical
     ELSE IF use = "translation" THEN "unknown_target_" \o code
     ELSE code

\* The re-check of the targets in each draft of translate_with_deepl:
\* getISO2ForModel(lang3)?.toUpperCase() looked up in the set of the full
\* provider codes (deepl_translator.js:44-53), and getDeepLTargetCode(lang3)
\* looked up in the same set (part_004:31-45, 192).
DeeplRecheckIn(sd, draft, lang3) ==
  LET code == IF draft = "part_004" THEN DeeplTargetCodeIn(sd, lang3)
              ELSE IF Iso3ToIso2In(sd, lang3) = NULL THEN NULL
              ELSE toUpperCase(Iso3ToIso2In(sd, lang3))
  IN code # NULL /\ code \in DeeplTargetSetIn(sd)

DeeplDrafts == {"deepl_translator", "part_004"}

\* The provider codes of a dataset.
ProviderCodesIn(sd, provider) ==
  IF provider = "deepl" THEN DeeplTargetSetIn(sd)
  ELSE {sd.google[i].value : i \in 1..Len(sd.google)}

ToProviderCode(sd, provider, c) ==
  CASE provider = "deepl" -> DeeplTargetCodeIn(sd, c)
    [] provider = "google" -> GoogleCodeIn(sd, c)
    [] provider = "m2m" -> Iso3ToIso2In(sd, c)

\* The canonical identifier for a provider code that came back in a call
\* whose targets were originals.
ToCanonical(sd, provider, code, originals) ==
  CASE provider = "deepl" -> DeeplCanonicalIn(sd, code)
    [] provider = "google" -> GoogleCanonicalIn(sd, code)
    [] provider = "m2m" -> M2mCanonicalIn(sd, originals, code)

\* The canonical identifiers a dataset knows.
IdentifiersIn(sd) ==
  ({sd.languages[i].iso : i \in 1..Len(sd.languages)} \ {NULL})
  \cup {sd.google[i].key : i \in 1..Len(sd.google)}

\* The targets the re-check of each adapter lets through.
CapabilitySetIn(sd, provider) ==
  CASE provider = "deepl" ->
         {c \in IdentifiersIn(sd) : /\ DeeplTargetCodeIn(sd, c) # NULL
                                     /\ DeeplTargetCodeIn(sd, c) \in DeeplTargetSetIn(sd)}
    [] provider = "google" -> {sd.google[i].key : i \in 1..Len(sd.google)}
    [] provider = "m2m" ->
         {c \in IdentifiersIn(sd) : /\ Iso3ToIso2In(sd, c) # NULL
                                     /\ Iso3ToIso2In(sd, c) \in sd.m2m}

(***************************************************************************)
(* translate_with_google (google_translator.js:40-262).  The credentials   *)
(* come from getGoogleCredentials (google_auth.js), which throws for an    *)
(* unconfigured provider.                                                  *)
(***************************************************************************)
\* new Set(Object.values(googleTranslateSupport))
googleSupportedTargetsSet == {getGoogleTranslateCode(k) : k \in googleTranslateSupport}

\* googleReverseMap[code]: a key of googleTranslateSupport with that value.
googleReverseMap(code) ==
  IF \E k \in googleTranslateSupport : getGoogleTranslateCode(k) = code
  THEN CHOOSE k \in googleTranslateSupport : getGoogleTranslateCode(k) = code
  ELSE NULL

\* getISO3FromISO2 of google_translator.js:17-20: the first registry entry.
googleGetISO3FromISO2(iso2) ==
  LET hits == SelectSeq(wikidataLanguages,
                     LAMBDA l : l.iso1 # NULL /\ toLowerCase(l.iso1) = toLowerCase(iso2))
  IN IF hits = <<>> THEN NULL ELSE hits[1].iso

\* mapAndFilterLanguages(targetLangs3, getGoogleTranslateCode, supportedTargetsSet)
GoogleMapAndFilter(targetLangs3) ==
  LET ok(lang3) == /\ getGoogleTranslateCode(lang3) # NULL
                   /\ getGoogleTranslateCode(lang3) \in googleSupportedTargetsSet
      okLangs == SelectSeq(targetLangs3, ok)
  IN [supported |-> [i \in 1..Len(okLangs) |-> getGoogleTranslateCode(okLangs[i])],
      unsupported |-> SelectSeq(targetLangs3, LAMBDA l : ~ok(l))]

GoogleUpstreamTargets(req, configured) ==
  IF ~configured \/ req.text \in {NULL, ""} THEN <<>>
  ELSE GoogleMapAndFilter(ParseTargets(req.tgt_langs).val).supported

GoogleKey(lang) ==
  IF googleReverseMap(lang) # NULL THEN googleReverseMap(lang)
  ELSE IF googleGetISO3FromISO2(lang) # NULL THEN googleGetISO3FromISO2(lang)
  ELSE "unknown_target_" \o lang

\* The source language a reply reports, as a google code.
GoogleDetected(code) == IF code = NULL THEN NULL ELSE toLowerCase(code)

translate_with_google(req, configured, ups) ==
  LET srcLang3 == req.src_lang
      unsupportedSourceLang ==
        IF srcLang3 # NULL /\ ~(getGoogleTranslateCode(srcLang3) # NULL
                                /\ getGoogleTranslateCode(srcLang3) \in googleSupportedTargetsSet)
        THEN srcLang3 ELSE NULL
      targetLangs3 == ParseTargets(req.tgt_langs).val
      filtered == GoogleMapAndFilter(targetLangs3)
      codes == filtered.supported
      sourceLanguageCode == IF srcLang3 # NULL /\ unsupportedSourceLang = NULL
                            THEN getGoogleTranslateCode(srcLang3) ELSE NULL
      made == [i \in 1..Len(codes) |->
                 UpstreamCall("google", "translate", codes[i], sourceLanguageCode)]
      body0 == Put(EmptyObj, IF srcLang3 # NULL THEN srcLang3 ELSE "source",
                   StringValue(req.text))
      body1 == PutTranslations(body0, [i \in 1..Len(codes) |-> GoogleKey(codes[i])], ups)
      first == GoogleDetected(FirstDetectedSource(ups))
      detected3 == IF first = NULL THEN NULL
                   ELSE IF googleReverseMap(first) # NULL THEN googleReverseMap(first)
                   ELSE IF googleGetISO3FromISO2(first) # NULL
                   THEN googleGetISO3FromISO2(first)
                   ELSE first
      body2 == IF detected3 # NULL /\ srcLang3 = NULL /\ ~HasTruthy(body1, detected3)
               THEN Put(body1, detected3, StringValue(req.text)) ELSE body1
  IN IF ~configured
     THEN AdapterResponse(500, "Google credentials not configured.", EmptyObj, EmptyObj,
                          NoMetadata, <<>>)
     ELSE IF req.text \in {NULL, ""}
     THEN AdapterResponse(400, "Missing 'text' field in request body.", EmptyObj,
                          EmptyObj, NoMetadata, <<>>)
     ELSE IF Len(targetLangs3) = 0
     THEN AdapterResponse(400, "No target languages provided.", EmptyObj,
                          AdapterErrors(<<>>, unsupportedSourceLang), NoMetadata, <<>>)
     ELSE IF Len(codes) = 0
     THEN AdapterResponse(400, "No valid target languages provided or mapped.", EmptyObj,
                          AdapterErrors(filtered.unsupported, unsupportedSourceLang),
                          NoMetadata, <<>>)
     ELSE IF \E i \in 1..Len(ups) : ~ups[i].ok
     THEN AdapterResponse(500, "Internal server error processing Google Translate request.",
                          EmptyObj, EmptyObj, NoMetadata, made)
     ELSE AdapterResponse(200, NULL, body2,
                          AdapterErrors(filtered.unsupported, unsupportedSourceLang),
                          [present |-> TRUE, src_lang |-> srcLang3,
                           language_definition |->
                             IF srcLang3 # NULL THEN "user" ELSE "google-auto-detect",
                           detected_source_language |-> detected3],
                          made)

(***************************************************************************)
(* translate_with_m2m (m2m_translator.js:34-148).  Its provider is the     *)
(* env.AI binding; without a source language it first asks DeepL, outside  *)
(* any try block.                                                          *)
(***************************************************************************)
M2mDefaultTargets == <<"spa", "jpn", "rus">>

M2mTargets(req) ==
  IF req.tgt_langs.kind \in {"string", "array"} THEN ParseTargets(req.tgt_langs).val
  ELSE M2mDefaultTargets

\* The source language after lines 37-52: given, or mapped from the
\* detection reply, or undefined.
M2mSource(req, det) ==
  IF req.src_lang # NULL THEN req.src_lang
  ELSE IF det.detected = NULL THEN NULL
  ELSE getISO3FromISO2(det.detected)

\* The loop of lines 73-87: supported targets as 2-letter codes.
M2mMapAndFilter(targetLangs3) ==
  LET ok(code3) == /\ getISO2ForModel(code3) # NULL
                   /\ getISO2ForModel(code3) \in m2mSupport
      okLangs == SelectSeq(targetLangs3, ok)
  IN [supported |-> [i \in 1..Len(okLangs) |-> getISO2ForModel(okLangs[i])],
      unsupported |-> SelectSeq(targetLangs3, LAMBDA l : ~ok(l)),
      originals |-> okLangs]

\* codeMapping[mapped]: the last original with that 2-letter code.
M2mCodeMapping(originals, lang2) ==
  LET hits == {i \in 1..Len(originals) : getISO2ForModel(originals[i]) = lang2}
  IN originals[CHOOSE i \in hits : \A j \in hits : j <= i]

\* Whether the adapter asks DeepL for the source language.
M2mDetects(req) == req.src_lang = NULL

\* The 2-letter codes for which env.AI.run is reached; with no binding the
\* property access throws before any call.
M2mUpstreamTargets(req, configured, det) ==
  IF M2mDetects(req) /\ (~det.ok \/ M2mSource(req, det) = NULL) THEN <<>>
  ELSE IF ~configured THEN <<>>
  ELSE M2mMapAndFilter(M2mTargets(req)).supported

\* The value of one language after the try/catch of lines 104-124.
M2mValue(configured, reply) ==
  IF ~configured \/ ~reply.ok THEN ErrorString ELSE reply.text

translate_with_m2m(req, configured, det, ups) ==
  LET detectCall == IF M2mDetects(req)
                    THEN <<UpstreamCall("m2m", "detect", "EN", NULL)>> ELSE <<>>
      srcLang3 == M2mSource(req, det)
      src_lang == IF srcLang3 = NULL THEN NULL ELSE getISO2ForModel(srcLang3)
      unsupportedSourceLang ==
        IF src_lang # NULL /\ src_lang \notin m2mSupport THEN srcLang3 ELSE NULL
      usedSrcLang == IF unsupportedSourceLang # NULL THEN NULL ELSE src_lang
      targetLangs3 == M2mTargets(req)
      filtered == M2mMapAndFilter(targetLangs3)
      codes == filtered.supported
      made == detectCall \o
              (IF configured
               THEN [i \in 1..Len(codes) |->
                       UpstreamCall("m2m", "translate", codes[i], usedSrcLang)]
               ELSE <<>>)
      values == [i \in 1..Len(codes) |->
                   [text |-> M2mValue(configured, IF configured THEN ups[i] ELSE HttpError)]]
      body0 == Put(EmptyObj, srcLang3, StringValue(req.text))
      body1 == PutTranslations(
                 body0,
                 [i \in 1..Len(codes) |-> M2mCodeMapping(filtered.originals, codes[i])],
                 values)
  IN IF M2mDetects(req) /\ ~det.ok
     THEN AdapterThrows(detectCall)
     ELSE IF srcLang3 = NULL
     THEN AdapterResponse(
            400, "Could not map detected source language from DeepL to a supported language code.",
            EmptyObj, EmptyObj, NoMetadata, detectCall)
     ELSE IF Len(codes) = 0
     THEN AdapterResponse(400, "No valid target languages provided or mapped.", EmptyObj,
                          AdapterErrors(filtered.unsupported, unsupportedSourceLang),
                          NoMetadata, detectCall)
     ELSE AdapterResponse(200, NULL, body1,
                          AdapterErrors(filtered.unsupported, unsupportedSourceLang),
                          [present |-> TRUE, src_lang |-> srcLang3,
                           language_definition |->
                             IF req.src_lang # NULL THEN "user" ELSE "deepl-detected",
                           detected_source_language |-> NULL],
                          made)

(***************************************************************************)
(* The orchestrator's use of an adapter.                                   *)
(***************************************************************************)
\* What tryTranslator sees of an adapter's return r for the languages it
\* asked for: res.status >= 400, or result[lang] for each of them.
AsOutcome(r, langs) ==
  IF r.kind = "throw"
  THEN [kind |-> "throw", body |-> EmptyObj, metadata |-> NoMetadata]
  ELSE IF r.status >= 400
  THEN [kind |-> "status", body |-> EmptyObj, metadata |-> NoMetadata]
  ELSE [kind |-> "ok",
        body |-> [l \in Range(langs) |->
                    IF l \in DOMAIN r.body THEN r.body[l] ELSE Undefined],
        metadata |-> r.metadata]

\* What the adapter of an unconfigured provider returns to buildReq(langs,
\* src): the provider's key, credentials or binding is missing from env.
UnconfiguredReturns(name, text, langs, src, deeplKey) ==
  LET req == [text |-> text, tgt_langs |-> [kind |-> "array", val |-> langs],
              src_lang |-> src]
  IN CASE name = "deepl" -> {translate_with_deepl(req, FALSE, <<>>)}
       [] name = "google" -> {translate_with_google(req, FALSE, <<>>)}
       [] name = "m2m" -> {translate_with_m2m(req, FALSE, det, <<>>) :
                             det \in DetectReplies(deeplKey)}

\* tryTranslator (multi_translator.js:171-213), given what the adapter did.
tryTranslator(langs, outcome) ==
  LET failedAll == [translations |-> EmptyObj, order |-> <<>>, errors |-> langs,
                    metadata |-> NoMetadata]
      good(l) == Truthy(outcome.body[l]) /\ ~outcome.body[l].err
      \* result[lang].includes is not a function on a non-string truthy value
      includesThrows == \E i \in 1..Len(langs) : outcome.body[langs[i]].t = "number"
      okLangs == SelectSeq(langs, good)
  IN IF langs = <<>>
     THEN [translations |-> EmptyObj, order |-> <<>>, errors |-> <<>>, metadata |-> NoMetadata]
     ELSE IF outcome.kind # "ok" THEN failedAll
     ELSE IF includesThrows THEN failedAll
     ELSE [translations |-> [l \in Range(okLangs) |-> outcome.body[l].s],
           order |-> Dedup(okLangs),
           errors |-> SelectSeq(langs, LAMBDA l : ~good(l)),
           metadata |-> outcome.metadata]

Pending == [translations |-> EmptyObj, order |-> <<>>, errors |-> <<"<pending>">>,
            metadata |-> NoMetadata]

\* ReadBuckets with a copy-paste slip: the google branch also hands the
\* languages of the deepl bucket to its adapter.
RECURSIVE ReadBuckets_CopyPaste(_, _)
ReadBuckets_CopyPaste(asg, names) ==
  IF names = <<>> THEN [order |-> <<>>, threw |-> FALSE]
  ELSE IF Head(names) \notin DOMAIN asg THEN [order |-> <<>>, threw |-> TRUE]
  ELSE LET rest == ReadBuckets_CopyPaste(asg, Tail(names))
           me == IF Len(asg[Head(names)]) > 0
                 THEN << [name |-> Head(names), langs |-> asg[Head(names)] \o
                            (IF Head(names) = "google" /\ "deepl" \in DOMAIN asg
                             THEN asg["deepl"] ELSE <<>>)] >>
                 ELSE <<>>
       IN [order |-> me \o rest.order, threw |-> rest.threw]

\* Reading assignment.deepl.length, .google.length, ... in order: a missing
\* bucket throws a TypeError after the earlier buckets were dispatched.
RECURSIVE ReadBuckets(_, _)
ReadBuckets(asg, names) ==
  IF names = <<>> THEN [order |-> <<>>, threw |-> FALSE]
  ELSE IF Head(names) \notin DOMAIN asg THEN [order |-> <<>>, threw |-> TRUE]
  ELSE LET rest == ReadBuckets(asg, Tail(names))
           me == IF Len(asg[Head(names)]) > 0
                 THEN << [name |-> Head(names), langs |-> asg[Head(names)]] >>
                 ELSE <<>>
       IN [order |-> me \o rest.order, threw |-> rest.threw]

(***************************************************************************)
(* Processing of the primary results (lines 246-297).                      *)
(***************************************************************************)
InitialMetadata(d, primaryDetected, detections, prefs) ==
  [translators |-> EmptyObj,
   src_lang |-> IF d.src_lang # NULL THEN d.src_lang ELSE primaryDetected,
   language_definition |-> IF d.src_lang # NULL THEN "user"
                           ELSE IF primaryDetected # NULL THEN "detected" ELSE NULL,
   language_detection |-> detections,
   detected_source_language |-> primaryDetected,
   detection_preferences |-> prefs,
   detection_used_translator |-> NULL]

\* MergeMetadata without the guards !metadata.src_lang and
\* !metadata.language_definition: what the adapter reports overwrites.
MergeMetadata_Overwrites(md, rm, name) ==
  IF ~rm.present THEN md
  ELSE [md EXCEPT
         !.src_lang = IF rm.src_lang # NULL THEN rm.src_lang ELSE @,
         !.language_definition =
            IF rm.language_definition # NULL THEN rm.language_definition ELSE @,
         !.detected_source_language =
            IF rm.detected_source_language # NULL /\ @ = NULL
            THEN rm.detected_source_language ELSE @,
         !.detection_used_translator =
            IF @ = NULL /\ (rm.detected_source_language # NULL \/ rm.src_lang # NULL)
            THEN name ELSE @]

MergeMetadata(md, rm, name) ==
  IF ~rm.present THEN md
  ELSE [md EXCEPT
         !.src_lang = IF rm.src_lang # NULL /\ @ = NULL THEN rm.src_lang ELSE @,
         !.language_definition =
            IF rm.language_definition # NULL /\ @ = NULL THEN rm.language_definition ELSE @,
         !.detected_source_language =
            IF rm.detected_source_language # NULL /\ @ = NULL
            THEN rm.detected_source_language ELSE @,
         !.detection_used_translator =
            IF @ = NULL /\ (rm.detected_source_language # NULL \/ rm.src_lang # NULL)
            THEN name ELSE @]

\* ProcessPrimaryResult attributing the whole bucket to the translator instead
\* of the languages it translated.
ProcessPrimaryResult_WholeBucket(acc, result, info) ==
  [final |-> ObjectAssign(acc.final, result.translations),
   failed |-> acc.failed \o result.errors,
   metadata |->
     MergeMetadata(
       [acc.metadata EXCEPT !.translators = Put(@, info.name, info.langs)],
       result.metadata, info.name)]

\* One iteration of the loop of lines 260-297 on acc = [final, failed, metadata].
ProcessPrimaryResult(acc, result, info) ==
  [final |-> ObjectAssign(acc.final, result.translations),
   failed |-> acc.failed \o result.errors,
   metadata |->
     MergeMetadata(
       IF Len(result.order) > 0
       THEN [acc.metadata EXCEPT !.translators = Put(@, info.name, result.order)]
       ELSE acc.metadata,
       result.metadata, info.name)]

RECURSIVE ProcessPrimary(_, _, _)
ProcessPrimary(acc, results, order) ==
  IF results = <<>> THEN acc
  ELSE ProcessPrimary(ProcessPrimaryResult(acc, Head(results), Head(order)),
                      Tail(results), Tail(order))

(***************************************************************************)
(* Processing of the fallback results (lines 371-389).                     *)
(***************************************************************************)
\* translatorInfo.name.replace("-fallback", "") of the name pushed at 316-367.
FallbackName(name) == name \o "-fallback"
StripFallback(name) ==
  CASE name = "deepl-fallback" -> "deepl"
    [] name = "google-fallback" -> "google"
    [] name = "m2m-fallback" -> "m2m"
    [] name = "openai-fallback" -> "openai"
    [] OTHER -> name

\* MergeFallbackEntry with the guard inverted: if (finalTranslations[lang]).
MergeFallbackEntry_InvertedGuard(acc, lang, translation, infoName) ==
  IF lang \in DOMAIN acc.final
  THEN LET translatorName == StripFallback(infoName)
           tr == acc.metadata.translators
           list == IF translatorName \in DOMAIN tr THEN tr[translatorName] ELSE <<>>
       IN [acc EXCEPT
             !.final = Put(@, lang, translation),
             !.metadata.translators = Put(@, translatorName, Append(list, lang))]
  ELSE acc

\* The body of the inner loop for one [lang, translation] entry.
MergeFallbackEntry(acc, lang, translation, infoName) ==
  IF lang \notin DOMAIN acc.final
  THEN LET translatorName == StripFallback(infoName)
           tr == acc.metadata.translators
           list == IF translatorName \in DOMAIN tr THEN tr[translatorName] ELSE <<>>
       IN [acc EXCEPT
             !.final = Put(@, lang, translation),
             !.metadata.translators = Put(@, translatorName, Append(list, lang))]
  ELSE acc

RECURSIVE MergeFallbackResult(_, _, _, _)
MergeFallbackResult(acc, result, keys, infoName) ==
  IF keys = <<>> THEN acc
  ELSE MergeFallbackResult(
         MergeFallbackEntry(acc, Head(keys), result.translations[Head(keys)], infoName),
         result, Tail(keys), infoName)

RECURSIVE ProcessFallback(_, _, _)
ProcessFallback(acc, results, order) ==
  IF results = <<>> THEN acc
  ELSE ProcessFallback(
         MergeFallbackResult(acc, Head(results), Head(results).order, Head(order).name),
         Tail(results), Tail(order))

(***************************************************************************)
(* The requests the model draws from.                                      *)
(***************************************************************************)
Texts == {NULL, "", "Hello"}
TargetLangs == {"spa", "nob", "lat", "nav", "zzz"}
CsvTokens == {",", " ", "spa"}
SrcLangs == {NULL, "eng"}

\* What a detector reports for the text when its detection succeeds.
Verdict(detector) == IF detector \in {"deepl", "m2m"} THEN "eng" ELSE "fra"
DetectionOutcomes(detector) == {NULL, Verdict(detector)}

Absent == [kind |-> "absent", val |-> <<>>]
Array(a) == [kind |-> "array", val |-> a]
String(t) == [kind |-> "string", val |-> t]

\* The providers whose key, credentials or binding env can hold; the openai
\* adapter is not among the sources and is taken as configured.
Configurable == {"deepl", "google", "m2m"}

TargetArrays(n) == {Array(a) : a \in SeqsUpTo(TargetLangs, n)}
TargetStrings == {String(t) : t \in SeqsUpTo(CsvTokens, MaxCsvLen)}

TranslatorInputs ==
  {Absent, Array(<<"deepl", "google", "m2m", "openai">>), Array(<<"m2m">>)}

\* <<data.detection_preferences, data.detection_preference>>
DetectionInputs ==
  { <<Absent, NULL>>, <<Absent, "deepl">>, <<Array(<<"deepl", "google">>), NULL>>,
    <<Absent, "bogus">>, <<Array(<<"deepl", "bogus">>), NULL>> }

Request(t, g, sl, tr, dp) ==
  [text |-> t, tgt_langs |-> g, src_lang |-> sl, translators |-> tr,
   detection_preferences |-> dp[1], detection_preference |-> dp[2]]

\* The target lists of the dispatch requests: the identifiers in the order
\* of the registry, repeated ones included, and one list out of that order.
LangRank(l) ==
  CASE l = "spa" -> 1 [] l = "nob" -> 2 [] l = "lat" -> 3 [] l = "nav" -> 4 [] OTHER -> 5
DispatchArrays ==
  {Array(a) : a \in {b \in SeqsUpTo(TargetLangs, MaxTargets) :
                       \A i, j \in 1..Len(b) : i < j => LangRank(b[i]) <= LangRank(b[j])}}
  \cup {Array(<<"nob", "spa">>)}

\* Requests that vary the targets and the priority order: up to MaxTargets
\* targets, an explicit source language, default detection.
DispatchRequests ==
  {Request("Hello", g, "eng", tr, <<Absent, NULL>>) :
     g \in DispatchArrays, tr \in TranslatorInputs}

\* Requests whose priority order names one provider that is not the first of
\* the fallback order, with one target.
OverrideRequests ==
  {Request("Hello", g, "eng", Array(<<"deepl">>), <<Absent, NULL>>) : g \in TargetArrays(1)}

\* Requests that vary the text, the source language and the detection
\* preferences, with at most one array target; and requests that vary the
\* text, the source language and the string form of tgt_langs, with one
\* detector.
InputRequests ==
  {Request(t, g, sl, Absent, dp) :
     t \in Texts, g \in {Absent} \cup TargetArrays(1),
     sl \in SrcLangs, dp \in DetectionInputs}
  \cup
  {Request(t, g, sl, Absent, <<Absent, "deepl">>) :
     t \in Texts, g \in TargetStrings, sl \in SrcLangs}

Requests == DispatchRequests \cup OverrideRequests \cup InputRequests

\* Requests met by an env that lacks one provider: targets of the deepl and
\* google buckets, no detection (detection_preferences: []).
ConfigTargetLangs == {"spa", "nob"}
ConfigRequests ==
  {Request("Hello", Array(a), sl, Absent, <<Array(<<>>), NULL>>) :
     a \in SeqsUpTo(ConfigTargetLangs, MaxTargets) \ {<<>>}, sl \in SrcLangs}
ConfigEnvs == {Configurable \ {p} : p \in Configurable}

\* Requests handed to one adapter alone: index.js routes POST /deepl and
\* POST /m2m to theirs, the tests of the google adapter call it the same way.
AdapterRoutes == {"deepl", "google", "m2m"}
AdapterTargetLangs == {"spa", "eng", "zzz"}
\* The source languages of the requests handed to an adapter: none, one every
\* provider knows, one of the registry that only google supports, one outside
\* the registry.
AdapterSrcLangs == {NULL, "eng", "lat", "zzz"}

AdapterRequests ==
  {Request("Hello", Array(a), sl, Absent, <<Absent, NULL>>) :
     a \in SeqsUpTo(AdapterTargetLangs, MaxTargets) \ {<<>>}, sl \in AdapterSrcLangs}

\* The repository holds two drafts of assignTranslators: the one exported by
\* src/lang_utils.js, without google, and the google-aware one of part_000
\* that the tests of handleMultiRequest presuppose.  The import of
\* "./lang_utils.js" in multi_translator.js binds one of them.
Impls == {"lang_utils", "part_000"}

vars == <<impl, data, pc, response, tgt_langs, detectionPreferences, translatorPriority,
          detectionResults, detectionArrival, languageDetections, primaryDetectedLang,
          assignment,
          translatorOrder, primaryResults, finalTranslations, failedLanguages, metadata,
          fallbackAssignment, fallbackOrder, fallbackResults, calls,
          route, env, sourceDetection, upstream, adapterResult,
          dataset, normCall, assignCalls, parked, running>>

pureVars == <<dataset, normCall, assignCalls>>
pairVars == <<parked, running>>
inputVars == <<impl, data, route, env, pureVars, pairVars>>
adapterVars == <<sourceDetection, upstream, adapterResult>>
parseVars == <<tgt_langs, detectionPreferences, translatorPriority>>
detectVars == <<detectionResults, detectionArrival, languageDetections, primaryDetectedLang>>
primaryVars == <<assignment, translatorOrder, primaryResults>>
mergeVars == <<finalTranslations, failedLanguages, metadata>>
fallbackVars == <<fallbackAssignment, fallbackOrder, fallbackResults>>

NoResponse == [status |-> 0, error |-> NULL, body |-> EmptyObj, errors |-> EmptyObj,
               metadata |-> EmptyObj]

NoReply == [ok |-> FALSE, text |-> Undefined, detected |-> "<none>"]
NoResult == [kind |-> "none", status |-> 0, error |-> NULL, body |-> EmptyObj,
             errors |-> EmptyObj, metadata |-> NoMetadata, upstream |-> <<>>]

NoCall == [kind |-> "none", provider |-> NULL, targets |-> <<>>, codes |-> <<>>,
           canonical |-> <<>>]

\* The locals of a handleMultiRequest invocation on request d before its
\* first statement.
FreshLocals(d) ==
  [data |-> d, pc |-> "Validating", response |-> NoResponse, tgt_langs |-> <<>>,
   detectionPreferences |-> <<>>, translatorPriority |-> <<>>,
   detectionResults |-> <<>>, detectionArrival |-> 0, languageDetections |-> EmptyObj,
   primaryDetectedLang |-> NULL, assignment |-> EmptyObj, translatorOrder |-> <<>>,
   primaryResults |-> <<>>, finalTranslations |-> EmptyObj, failedLanguages |-> <<>>,
   metadata |-> EmptyObj, fallbackAssignment |-> EmptyObj, fallbackOrder |-> <<>>,
   fallbackResults |-> <<>>, calls |-> <<>>]

\* No second invocation.
NoParked == [FreshLocals(NULL) EXCEPT !.pc = "none"]

\* The state of a handler that has not started.
NotStarted ==
  /\ response = NoResponse
  /\ tgt_langs = <<>>
  /\ detectionPreferences = <<>>
  /\ translatorPriority = <<>>
  /\ detectionResults = <<>>
  /\ detectionArrival = 0
  /\ languageDetections = EmptyObj
  /\ primaryDetectedLang = NULL
  /\ assignment = EmptyObj
  /\ translatorOrder = <<>>
  /\ primaryResults = <<>>
  /\ finalTranslations = EmptyObj
  /\ failedLanguages = <<>>
  /\ metadata = EmptyObj
  /\ fallbackAssignment = EmptyObj
  /\ fallbackOrder = <<>>
  /\ fallbackResults = <<>>
  /\ calls = <<>>
  /\ sourceDetection = NoReply
  /\ upstream = <<>>
  /\ adapterResult = NoResult

Init ==
  /\ \/ /\ route = "multi"
        /\ impl \in Impls
        /\ \/ data \in Requests /\ env = Configurable
           \/ data \in ConfigRequests /\ env \in ConfigEnvs
        /\ pc = "Validating"
     \/ /\ route \in AdapterRoutes
        /\ impl = "lang_utils"
        /\ data \in AdapterRequests
        /\ env \in {Configurable, Configurable \ {route}}
        /\ pc = "AdapterReceived"
  /\ NotStarted
  /\ dataset = StaticData
  /\ normCall = NoCall
  /\ assignCalls = <<>>
  /\ parked = NoParked
  /\ running = 1

(***************************************************************************)
(* Validating (lines 18-84).                                               *)
(***************************************************************************)
Reject(reason) ==
  [NoResponse EXCEPT !.status = 400, !.error = reason]

RejectNoTargets ==
  /\ pc = "Validating"
  /\ LET parsed == ParseTargets(data.tgt_langs)
     IN ~parsed.isArray \/ Len(parsed.val) = 0
  /\ response' = Reject("No target languages provided.")
  /\ pc' = "Rejected"
  /\ UNCHANGED <<inputVars, adapterVars, parseVars, detectVars, primaryVars, mergeVars, fallbackVars,
                 calls>>

RejectInvalidDetectors ==
  /\ pc = "Validating"
  /\ LET parsed == ParseTargets(data.tgt_langs)
     IN parsed.isArray /\ Len(parsed.val) > 0 /\ tgt_langs' = parsed.val
  /\ detectionPreferences' = ParseDetectionPreferences(data)
  /\ Len(InvalidDetectors(detectionPreferences')) > 0
  /\ response' = Reject(InvalidDetectorsMessage(InvalidDetectors(detectionPreferences')))
  /\ pc' = "Rejected"
  /\ UNCHANGED <<inputVars, adapterVars, translatorPriority, detectVars, primaryVars, mergeVars,
                 fallbackVars, calls>>

AcceptRequest ==
  /\ pc = "Validating"
  /\ LET parsed == ParseTargets(data.tgt_langs)
     IN parsed.isArray /\ Len(parsed.val) > 0 /\ tgt_langs' = parsed.val
  /\ detectionPreferences' = ParseDetectionPreferences(data)
  /\ Len(InvalidDetectors(detectionPreferences')) = 0
  /\ translatorPriority' = TranslatorPriority(data)
  /\ pc' = "Detecting"
  /\ UNCHANGED <<inputVars, adapterVars, response, detectVars, primaryVars, mergeVars, fallbackVars,
                 calls>>

(***************************************************************************)
(* Detecting (lines 86-160).                                               *)
(***************************************************************************)
DetectionCall(detector) ==
  [op |-> "detect", pass |-> "detect", provider |-> detector, langs |-> <<"eng">>,
   src_lang |-> NULL, text |-> data.text]

PendingDetection == "<pending>"

SkipDetection ==
  /\ pc = "Detecting"
  /\ ~(data.src_lang = NULL /\ Len(detectionPreferences) > 0)
  /\ pc' = "Assigning"
  /\ UNCHANGED <<inputVars, adapterVars, response, parseVars, detectVars, primaryVars, mergeVars,
                 fallbackVars, calls>>

StartDetection ==
  /\ pc = "Detecting"
  /\ data.src_lang = NULL /\ Len(detectionPreferences) > 0
  /\ calls' = calls \o [i \in 1..Len(detectionPreferences) |->
                          DetectionCall(detectionPreferences[i])]
  /\ detectionResults' = [i \in 1..Len(detectionPreferences) |-> PendingDetection]
  /\ pc' = "AwaitDetection"
  /\ UNCHANGED <<inputVars, adapterVars, response, parseVars, detectionArrival, languageDetections,
                 primaryDetectedLang, primaryVars, mergeVars, fallbackVars>>

\* detectWithTranslator(detector) resolves: a language, or null on any failure.
SettleDetection(i, detected) ==
  /\ pc = "AwaitDetection"
  /\ detectionResults[i] = PendingDetection
  /\ detectionResults' = [detectionResults EXCEPT ![i] = detected]
  /\ detectionArrival' = IF detectionArrival = 0 /\ detected # NULL THEN i
                          ELSE detectionArrival
  /\ UNCHANGED <<inputVars, adapterVars, pc, response, parseVars, languageDetections,
                 primaryDetectedLang, primaryVars, mergeVars, fallbackVars, calls>>

\* CollectDetections without the guard if (!primaryDetectedLang): the last
\* successful detection overwrites the earlier ones.
RECURSIVE CollectDetections_LastWins(_, _, _)
CollectDetections_LastWins(acc, detectors, detected) ==
  IF detectors = <<>> THEN acc
  ELSE CollectDetections_LastWins(
         IF Head(detected) # NULL
         THEN [detections |-> Put(acc.detections, Head(detectors), Head(detected)),
               primary |-> Head(detected)]
         ELSE acc,
         Tail(detectors), Tail(detected))

\* CollectDetections leaving the loop at the first failed detection.
RECURSIVE CollectDetections_StopAtFailure(_, _, _)
CollectDetections_StopAtFailure(acc, detectors, detected) ==
  IF detectors = <<>> THEN acc
  ELSE IF Head(detected) = NULL THEN acc
  ELSE CollectDetections_StopAtFailure(
         [detections |-> Put(acc.detections, Head(detectors), Head(detected)),
          primary |-> IF acc.primary = NULL THEN Head(detected) ELSE acc.primary],
         Tail(detectors), Tail(detected))

\* The loop of lines 150-157 over detectionResults, in preference order.
RECURSIVE CollectDetections(_, _, _)
CollectDetections(acc, detectors, detected) ==
  IF detectors = <<>> THEN acc
  ELSE CollectDetections(
         IF Head(detected) # NULL
         THEN [detections |-> Put(acc.detections, Head(detectors), Head(detected)),
               primary |-> IF acc.primary = NULL THEN Head(detected) ELSE acc.primary]
         ELSE acc,
         Tail(detectors), Tail(detected))

CollectDetection ==
  /\ pc = "AwaitDetection"
  /\ \A i \in 1..Len(detectionResults) : detectionResults[i] # PendingDetection
  /\ LET got == CollectDetections([detections |-> EmptyObj, primary |-> NULL],
                                  detectionPreferences, detectionResults)
     IN /\ languageDetections' = got.detections
        /\ primaryDetectedLang' = got.primary
  /\ pc' = "Assigning"
  /\ UNCHANGED <<inputVars, adapterVars, response, parseVars, detectionResults, detectionArrival,
                 primaryVars, mergeVars, fallbackVars, calls>>

(***************************************************************************)
(* Assigning and Dispatching (lines 162-244).                              *)
(***************************************************************************)
\* The assignTranslators that the import in multi_translator.js:5 resolves to.
AssignBy(i, langs, order) ==
  IF i = "part_000" THEN assignTranslatorsPart000(langs, order)
  ELSE assignTranslators(langs, order)

Assign ==
  /\ pc = "Assigning"
  /\ assignment' = AssignBy(impl, tgt_langs, translatorPriority)
  /\ pc' = "Dispatching"
  /\ UNCHANGED <<inputVars, adapterVars, response, parseVars, detectVars, translatorOrder,
                 primaryResults, mergeVars, fallbackVars, calls>>

\* buildReq(langs, primaryDetectedLang || data.src_lang) handed to an adapter.
TranslateCall(pass, name, langs) ==
  [op |-> "translate", pass |-> pass, provider |-> name, langs |-> langs,
   src_lang |-> IF primaryDetectedLang # NULL THEN primaryDetectedLang ELSE data.src_lang,
   text |-> data.text]

TypeErrorThrown == [NoResponse EXCEPT !.error = "TypeError"]

DispatchPrimary ==
  /\ pc = "Dispatching"
  /\ LET read == ReadBuckets(assignment, BucketReadOrder)
     IN /\ ~read.threw
        /\ translatorOrder' = read.order
        /\ primaryResults' = [i \in 1..Len(read.order) |-> Pending]
        /\ calls' = calls \o [i \in 1..Len(read.order) |->
                                TranslateCall("primary", read.order[i].name,
                                              read.order[i].langs)]
  /\ pc' = "AwaitPrimary"
  /\ UNCHANGED <<inputVars, adapterVars, response, parseVars, detectVars, assignment, mergeVars,
                 fallbackVars>>

\* A bucket the handler reads is missing from the assignment: the handler
\* throws after the adapters of the earlier buckets were invoked.
DispatchPrimaryThrows ==
  /\ pc = "Dispatching"
  /\ LET read == ReadBuckets(assignment, BucketReadOrder)
     IN /\ read.threw
        /\ translatorOrder' = read.order
        /\ calls' = calls \o [i \in 1..Len(read.order) |->
                                TranslateCall("primary", read.order[i].name,
                                              read.order[i].langs)]
  /\ response' = TypeErrorThrown
  /\ pc' = "Threw"
  /\ UNCHANGED <<inputVars, adapterVars, parseVars, detectVars, assignment, primaryResults, mergeVars,
                 fallbackVars>>

SettlePrimary(i, outcome) ==
  /\ pc = "AwaitPrimary"
  /\ primaryResults[i] = Pending
  /\ primaryResults' =
       [primaryResults EXCEPT ![i] = tryTranslator(translatorOrder[i].langs, outcome)]
  /\ UNCHANGED <<inputVars, adapterVars, pc, response, parseVars, detectVars, assignment,
                 translatorOrder, mergeVars, fallbackVars, calls>>

\* Lines 244-300: Promise.all resolved, the primary results are processed.
CollectPrimary ==
  /\ pc = "AwaitPrimary"
  /\ \A i \in 1..Len(primaryResults) : primaryResults[i] # Pending
  /\ LET acc == ProcessPrimary(
                  [final |-> EmptyObj, failed |-> <<>>,
                   metadata |-> InitialMetadata(data, primaryDetectedLang,
                                                languageDetections, detectionPreferences)],
                  primaryResults, translatorOrder)
     IN /\ finalTranslations' = acc.final
        /\ failedLanguages' = acc.failed
        /\ metadata' = acc.metadata
        /\ pc' = IF Len(acc.failed) > 0 THEN "FallbackAssigning" ELSE "Merging"
  /\ UNCHANGED <<inputVars, adapterVars, response, parseVars, detectVars, primaryVars, fallbackVars,
                 calls>>

(***************************************************************************)
(* FallbackDispatching (lines 299-390).                                    *)
(***************************************************************************)
\* DispatchFallback that assigns every requested target again, not the failed
\* ones only.
DispatchFallback_AllTargets ==
  /\ pc = "FallbackAssigning"
  /\ fallbackAssignment' = AssignBy(impl, tgt_langs, FallbackPriority)
  /\ LET read == ReadBuckets(fallbackAssignment', BucketReadOrder)
         order == [i \in 1..Len(read.order) |->
                     [name |-> FallbackName(read.order[i].name),
                      langs |-> read.order[i].langs]]
     IN /\ fallbackOrder' = order
        /\ calls' = calls \o [i \in 1..Len(read.order) |->
                                TranslateCall("fallback", read.order[i].name,
                                              read.order[i].langs)]
        /\ IF read.threw
           THEN /\ response' = TypeErrorThrown
                /\ pc' = "Threw"
                /\ UNCHANGED fallbackResults
           ELSE /\ fallbackResults' = [i \in 1..Len(order) |-> Pending]
                /\ pc' = "AwaitFallback"
                /\ UNCHANGED response
  /\ UNCHANGED <<inputVars, adapterVars, parseVars, detectVars, primaryVars, mergeVars>>

\* Lines 299-367: the failed languages are assigned in the fallback order and
\* the adapters of the non-empty buckets are invoked.
DispatchFallback ==
  /\ pc = "FallbackAssigning"
  /\ fallbackAssignment' = AssignBy(impl, failedLanguages, FallbackPriority)
  /\ LET read == ReadBuckets(fallbackAssignment', BucketReadOrder)
         order == [i \in 1..Len(read.order) |->
                     [name |-> FallbackName(read.order[i].name),
                      langs |-> read.order[i].langs]]
     IN /\ fallbackOrder' = order
        /\ calls' = calls \o [i \in 1..Len(read.order) |->
                                TranslateCall("fallback", read.order[i].name,
                                              read.order[i].langs)]
        /\ IF read.threw
           THEN /\ response' = TypeErrorThrown
                /\ pc' = "Threw"
                /\ UNCHANGED fallbackResults
           ELSE /\ fallbackResults' = [i \in 1..Len(order) |-> Pending]
                /\ pc' = "AwaitFallback"
                /\ UNCHANGED response
  /\ UNCHANGED <<inputVars, adapterVars, parseVars, detectVars, primaryVars, mergeVars>>

SettleFallback(i, outcome) ==
  /\ pc = "AwaitFallback"
  /\ fallbackResults[i] = Pending
  /\ fallbackResults' =
       [fallbackResults EXCEPT ![i] = tryTranslator(fallbackOrder[i].langs, outcome)]
  /\ UNCHANGED <<inputVars, adapterVars, pc, response, parseVars, detectVars, primaryVars, mergeVars,
                 fallbackAssignment, fallbackOrder, calls>>

CollectFallback ==
  /\ pc = "AwaitFallback"
  /\ \A i \in 1..Len(fallbackResults) : fallbackResults[i] # Pending
  /\ LET acc == ProcessFallback(
                  [final |-> finalTranslations, failed |-> failedLanguages,
                   metadata |-> metadata],
                  fallbackResults, fallbackOrder)
     IN /\ finalTranslations' = acc.final
        /\ metadata' = acc.metadata
  /\ pc' = "Merging"
  /\ UNCHANGED <<inputVars, adapterVars, response, parseVars, detectVars, primaryVars, failedLanguages,
                 fallbackVars, calls>>

(***************************************************************************)
(* Responding (lines 392-410).                                             *)
(***************************************************************************)
\* BuildErrors without the removal of the empty list (lines 397-399).
BuildErrors_KeepsEmpty(asg) == [k \in {"unsupported_target_langs"} |-> asg.unsupported]

\* BuildErrors that never fills unsupported_target_langs.
BuildErrors_Dropped(asg) == EmptyObj

BuildErrors(asg) ==
  IF Len(asg.unsupported) > 0
  THEN [k \in {"unsupported_target_langs"} |-> asg.unsupported]
  ELSE EmptyObj

Respond ==
  /\ pc = "Merging"
  /\ response' = [status |-> 200, error |-> NULL, body |-> finalTranslations,
                  errors |-> BuildErrors(assignment), metadata |-> metadata]
  /\ pc' = "Responding"
  /\ UNCHANGED <<inputVars, adapterVars, parseVars, detectVars, primaryVars, mergeVars, fallbackVars,
                 calls>>

\* What the adapter of translatorOrder/fallbackOrder entry [name, langs] can
\* do in this request.
CallOutcomes(name, pass, langs) ==
  IF name \in Configurable \ env
  THEN {AsOutcome(r, langs) :
          r \in UnconfiguredReturns(
                  name, data.text, langs,
                  IF primaryDetectedLang # NULL THEN primaryDetectedLang ELSE data.src_lang,
                  "deepl" \in env)}
  ELSE AdapterOutcomes(name, pass, langs)

(***************************************************************************)
(* A request handed to one adapter (index.js: POST /deepl, POST /m2m).     *)
(***************************************************************************)
AdapterReq == [text |-> data.text, tgt_langs |-> data.tgt_langs, src_lang |-> data.src_lang]

\* The provider codes the adapter of the route calls upstream for.
AdapterUpstreamTargets(det) ==
  CASE route = "deepl" -> DeeplUpstreamTargets(AdapterReq, "deepl" \in env)
    [] route = "google" -> GoogleUpstreamTargets(AdapterReq, "google" \in env)
    [] route = "m2m" -> M2mUpstreamTargets(AdapterReq, "m2m" \in env, det)

PendingReply == [ok |-> FALSE, text |-> Undefined, detected |-> "<pending>"]

\* The adapter maps the targets and starts one upstream call per supported
\* target (Promise.all over targetLangs.map).
AdapterCallsUpstream ==
  /\ pc = "AdapterReceived"
  /\ ~(route = "m2m" /\ M2mDetects(AdapterReq))
  /\ upstream' = [i \in 1..Len(AdapterUpstreamTargets(NoReply)) |-> PendingReply]
  /\ pc' = "AdapterCalling"
  /\ UNCHANGED <<inputVars, response, parseVars, detectVars, primaryVars, mergeVars,
                 fallbackVars, calls, sourceDetection, adapterResult>>

\* translate_with_m2m without src_lang: detect_language is awaited first.
AdapterDetectsSource ==
  /\ pc = "AdapterReceived"
  /\ route = "m2m" /\ M2mDetects(AdapterReq)
  /\ pc' = "AdapterDetecting"
  /\ UNCHANGED <<inputVars, adapterVars, response, parseVars, detectVars, primaryVars,
                 mergeVars, fallbackVars, calls>>

AdapterSourceDetected(det) ==
  /\ pc = "AdapterDetecting"
  /\ sourceDetection' = det
  /\ upstream' = [i \in 1..Len(AdapterUpstreamTargets(det)) |-> PendingReply]
  /\ pc' = "AdapterCalling"
  /\ UNCHANGED <<inputVars, response, parseVars, detectVars, primaryVars, mergeVars,
                 fallbackVars, calls, adapterResult>>

UpstreamSettles(i, reply) ==
  /\ pc = "AdapterCalling"
  /\ upstream[i] = PendingReply
  /\ upstream' = [upstream EXCEPT ![i] = reply]
  /\ UNCHANGED <<inputVars, pc, response, parseVars, detectVars, primaryVars, mergeVars,
                 fallbackVars, calls, sourceDetection, adapterResult>>

\* The adapter of the route, on the replies its calls met.
AdapterOf(r, req, configured, det, ups) ==
  CASE r = "deepl" -> translate_with_deepl(req, configured, ups)
    [] r = "google" -> translate_with_google(req, configured, ups)
    [] r = "m2m" -> translate_with_m2m(req, configured, det, ups)

AdapterReturns ==
  /\ pc = "AdapterCalling"
  /\ \A i \in 1..Len(upstream) : upstream[i] # PendingReply
  /\ adapterResult' = AdapterOf(route, AdapterReq, route \in env, sourceDetection, upstream)
  /\ pc' = "AdapterReturned"
  /\ UNCHANGED <<inputVars, response, parseVars, detectVars, primaryVars, mergeVars,
                 fallbackVars, calls, sourceDetection, upstream>>

\* The per-language callbacks of the deepl and google adapters throw on a
\* reply that is not ok; Promise.all rejects with the first rejection and the
\* outer catch returns while the other calls are still in flight.  The
\* callbacks of the m2m adapter catch, so its Promise.all never rejects.
AdapterRejects ==
  /\ pc = "AdapterCalling"
  /\ route \in {"deepl", "google"}
  /\ \E i \in 1..Len(upstream) : upstream[i] # PendingReply /\ ~upstream[i].ok
  /\ \E i \in 1..Len(upstream) : upstream[i] = PendingReply
  /\ adapterResult' = AdapterOf(route, AdapterReq, route \in env, sourceDetection, upstream)
  /\ pc' = "AdapterReturned"
  /\ UNCHANGED <<inputVars, response, parseVars, detectVars, primaryVars, mergeVars,
                 fallbackVars, calls, sourceDetection, upstream>>

Next ==
  \/ RejectNoTargets
  \/ RejectInvalidDetectors
  \/ AcceptRequest
  \/ SkipDetection
  \/ StartDetection
  \/ \E i \in 1..Len(detectionResults) :
       \E d \in DetectionOutcomes(detectionPreferences[i]) : SettleDetection(i, d)
  \/ CollectDetection
  \/ Assign
  \/ DispatchPrimary
  \/ DispatchPrimaryThrows
  \/ \E i \in 1..Len(primaryResults) :
       \E o \in CallOutcomes(translatorOrder[i].name, "primary", translatorOrder[i].langs) :
         SettlePrimary(i, o)
  \/ CollectPrimary
  \/ DispatchFallback
  \/ \E i \in 1..Len(fallbackResults) :
       \E o \in CallOutcomes(StripFallback(fallbackOrder[i].name), "fallback",
                             fallbackOrder[i].langs) :
         SettleFallback(i, o)
  \/ CollectFallback
  \/ Respond
  \/ AdapterCallsUpstream
  \/ AdapterDetectsSource
  \/ \E det \in DetectReplies("deepl" \in env) : AdapterSourceDetected(det)
  \/ \E i \in 1..Len(upstream) :
       \E reply \in UpstreamReplies(route, "primary", AdapterUpstreamTargets(sourceDetection)[i]) :
         UpstreamSettles(i, reply)
  \/ AdapterReturns
  \/ AdapterRejects

Spec == Init /\ [][Next]_vars

(***************************************************************************)
(* The functions of the static data applied on their own: the code         *)
(* normalisation of the adapters over datasets in which registry entries   *)
(* share a 2-letter code or support entries share a provider code.         *)
(***************************************************************************)
\* Two registry entries for Chinese with the 2-letter code zh, and the
\* provider data that knows the code.
Chinese == [iso |-> "zho", iso1 |-> "zh"]
Mandarin == [iso |-> "cmn", iso1 |-> "zh"]
LanguageExtras == {<<>>, <<Chinese>>, <<Chinese, Mandarin>>, <<Mandarin, Chinese>>}
GoogleExtras ==
  {<<>>, << [key |-> "zho", value |-> "zh-CN"] >>,
   << [key |-> "zho", value |-> "zh-CN"], [key |-> "cmn", value |-> "zh-CN"] >>}

Datasets ==
  {[languages |-> wikidataLanguages \o le,
    deeplTargets |-> deeplTargets \o << <<"PT", "BR">>, <<"PT", "PT">>, <<"ZH">>,
                                       <<"ZH", "HANS">>, <<"ZH", "HANT">> >>,
    m2m |-> m2mSupport \cup {"zh"},
    google |-> googleTranslateSupportEntries \o ge] :
     le \in LanguageExtras, ge \in GoogleExtras}

NormProviders == {"deepl", "google", "m2m"}

\* The targets of one adapter call: supported identifiers, at most MaxTargets.
NormTargets(sd, provider) == SeqsUpTo(CapabilitySetIn(sd, provider), MaxTargets) \ {<<>>}

PureInit ==
  /\ route = "none"
  /\ impl \in Impls
  /\ env = Configurable
  /\ data = Request("Hello", Array(<<"spa">>), "eng", Absent, <<Absent, NULL>>)
  /\ pc = "Loaded"
  /\ NotStarted
  /\ dataset \in Datasets
  /\ normCall = NoCall
  /\ assignCalls = <<>>
  /\ parked = NoParked
  /\ running = 1

\* An adapter maps the targets of a call to provider codes and maps each
\* code that comes back to the key of its result.
Normalize(provider, targets) ==
  /\ pc = "Loaded"
  /\ LET codes == [i \in 1..Len(targets) |-> ToProviderCode(dataset, provider, targets[i])]
     IN normCall' =
          [kind |-> "roundtrip", provider |-> provider, targets |-> targets,
           codes |-> codes,
           canonical |-> [i \in 1..Len(targets) |->
                            ToCanonical(dataset, provider, codes[i], targets)]]
  /\ pc' = "Applied"
  /\ UNCHANGED <<impl, data, route, env, dataset, assignCalls, pairVars, adapterVars, response,
                 parseVars, detectVars, primaryVars, mergeVars, fallbackVars, calls>>

\* An adapter (or the google detector) maps a provider code that came back,
\* as the code of a translation or as a detected source language.
MapInbound(provider, use, code) ==
  /\ pc = "Loaded"
  /\ normCall' = [kind |-> use, provider |-> provider, targets |-> <<>>,
                  codes |-> <<code>>,
                  canonical |-> <<InboundIn(dataset, provider, use, code)>>]
  /\ pc' = "Applied"
  /\ UNCHANGED <<impl, data, route, env, dataset, assignCalls, pairVars, adapterVars, response,
                 parseVars, detectVars, primaryVars, mergeVars, fallbackVars, calls>>

\* obj[key] on a plain object (the accumulator {} of lang_utils.js:5-17, the
\* literal deeplPreferredMap, the imported JSON tables): the own property,
\* else the property of that name inherited from Object.prototype, which is
\* a function, else undefined.
Inherited == "<function>"
ObjectPrototypeKeys == {"constructor", "toString"}
PlainLookup(own, key) ==
  IF own # NULL THEN own
  ELSE IF key \in ObjectPrototypeKeys THEN Inherited
  ELSE NULL

Returned(v) == [threw |-> FALSE, value |-> v]
Threw == [threw |-> TRUE, value |-> NULL]

\* v?.toUpperCase(): undefined for a nullish v, a TypeError for a value
\* without that method.
OptionalUpper(v) ==
  IF v = NULL THEN Returned(NULL)
  ELSE IF v = Inherited THEN Threw
  ELSE Returned(toUpperCase(v))

OutboundMappings ==
  {"getISO2ForModel", "getDeepLTargetCode", "getDeepLSourceCode", "getGoogleTranslateCode"}
InboundMappings == {"getISO3FromISO2", "google_translator.getISO3FromISO2"}

\* What a code-normalisation function does on the string s (lang_utils.js:
\* 19-25, part_004:21-28, google_translator.js:11-20).
MappingOutcome(sd, fn, s) ==
  LET iso2 == PlainLookup(Iso3ToIso2In(sd, s), s)
      preferred == PlainLookup(deeplPreferredMap(toLowerCase(s)), toLowerCase(s))
  IN CASE fn = "getISO2ForModel" -> Returned(iso2)
       [] fn = "getDeepLTargetCode" ->
            IF preferred # NULL THEN Returned(preferred) ELSE OptionalUpper(iso2)
       [] fn = "getDeepLSourceCode" -> OptionalUpper(iso2)
       [] fn = "getGoogleTranslateCode" -> Returned(PlainLookup(GoogleCodeIn(sd, s), s))
       [] fn = "getISO3FromISO2" ->
            Returned(PlainLookup(Iso2ToIso3In(sd, s), toUpperCase(s)))
       [] fn = "google_translator.getISO3FromISO2" -> Returned(GoogleFindIso3In(sd, s))

\* The strings the mappings are applied to: identifiers and codes of the
\* registry, strings outside it, and names of Object.prototype properties.
MappingInputs == {"spa", "zzz", "ES", "xx", "constructor", "toString"}

\* One call of a code-normalisation function.
ApplyMapping(fn, s) ==
  /\ pc = "Loaded"
  /\ normCall' = [kind |-> "mapping", provider |-> fn, targets |-> <<s>>,
                  codes |-> <<>>, canonical |-> <<>>,
                  outcome |-> MappingOutcome(dataset, fn, s)]
  /\ pc' = "Applied"
  /\ UNCHANGED <<impl, data, route, env, dataset, assignCalls, pairVars, adapterVars, response,
                 parseVars, detectVars, primaryVars, mergeVars, fallbackVars, calls>>

\* The buckets tryTranslator is called with.
TryLangs == SeqsUpTo({"spa", "nob"}, MaxTargets)

\* One call of tryTranslator on a bucket, given what the adapter does.
ApplyTry(langs, outcome) ==
  /\ pc = "Loaded"
  /\ normCall' = [kind |-> "try", provider |-> "deepl", targets |-> langs,
                  codes |-> <<>>, canonical |-> <<>>,
                  outcome |-> outcome, result |-> tryTranslator(langs, outcome)]
  /\ pc' = "Applied"
  /\ UNCHANGED <<impl, data, route, env, dataset, assignCalls, pairVars, adapterVars, response,
                 parseVars, detectVars, primaryVars, mergeVars, fallbackVars, calls>>

\* The target lists and translator orders assignTranslators is called with:
\* lists of supported, unsupported and unknown identifiers and the missing
\* list of part_014, under the default order of lang_utils.js, the order of
\* part_000 and the fallback order of the orchestrator.
AssignTargetLangs == {"spa", "nob", "cmn", "zzz"}
AssignTargets == SeqsUpTo(AssignTargetLangs, MaxTargets) \cup {<<"eng">>}
AssignOrders ==
  {<<"deepl", "m2m", "openai">>, <<"deepl", "google", "m2m", "openai">>, FallbackPriority}

AssignCall(targets, translator_order) ==
  [tgt_langs |-> targets, translator_order |-> translator_order,
   result |-> assignTranslatorsIn(dataset, impl, targets, translator_order)]

\* assignTranslators(targets, translator_order), called on the loaded module.
AssignFirst(targets, translator_order) ==
  /\ pc = "Loaded"
  /\ assignCalls' = <<AssignCall(targets, translator_order)>>
  /\ pc' = "AssignedOnce"
  /\ UNCHANGED <<impl, data, route, env, dataset, normCall, pairVars, adapterVars, response,
                 parseVars, detectVars, primaryVars, mergeVars, fallbackVars, calls>>

\* The same call made a second time on the same module.
AssignAgain ==
  /\ pc = "AssignedOnce"
  /\ assignCalls' = Append(assignCalls, AssignCall(assignCalls[1].tgt_langs,
                                                  assignCalls[1].translator_order))
  /\ pc' = "Applied"
  /\ UNCHANGED <<impl, data, route, env, dataset, normCall, pairVars, adapterVars, response,
                 parseVars, detectVars, primaryVars, mergeVars, fallbackVars, calls>>

PureNext ==
  \/ \E provider \in {"deepl", "google"}, use \in {"translation", "detected"} :
       \E code \in ProviderCodesIn(dataset, provider) : MapInbound(provider, use, code)
  \/ \E provider \in NormProviders :
       \E targets \in NormTargets(dataset, provider) : Normalize(provider, targets)
  \/ \E targets \in AssignTargets, translator_order \in AssignOrders :
       AssignFirst(targets, translator_order)
  \/ AssignAgain
  \/ \E fn \in OutboundMappings \cup InboundMappings, s \in MappingInputs :
       ApplyMapping(fn, s)
  \/ \E langs \in TryLangs :
       \E outcome \in AdapterOutcomes("deepl", "primary", langs) : ApplyTry(langs, outcome)

PureSpec == PureInit /\ [][PureNext]_vars

(***************************************************************************)
(* Two handleMultiRequest invocations on one worker.  JavaScript runs one  *)
(* of them at a time and can pass to the other where the running one       *)
(* awaits; what an invocation declares with const/let inside the handler   *)
(* travels with it, what the module declares is shared.                    *)
(***************************************************************************)
\* The variables of multi_translator.js that handleMultiRequest writes and
\* that are declared outside it: none (ISO3_TO_ISO2_MAP, lines 8-16, is built
\* once when the module loads and only read).
SharedAcrossRequests_FinalTranslations == {"finalTranslations"}

SharedAcrossRequests == {}

Locals ==
  [data |-> data, pc |-> pc, response |-> response, tgt_langs |-> tgt_langs,
   detectionPreferences |-> detectionPreferences,
   translatorPriority |-> translatorPriority,
   detectionResults |-> detectionResults, detectionArrival |-> detectionArrival,
   languageDetections |-> languageDetections,
   primaryDetectedLang |-> primaryDetectedLang, assignment |-> assignment,
   translatorOrder |-> translatorOrder, primaryResults |-> primaryResults,
   finalTranslations |-> finalTranslations, failedLanguages |-> failedLanguages,
   metadata |-> metadata, fallbackAssignment |-> fallbackAssignment,
   fallbackOrder |-> fallbackOrder, fallbackResults |-> fallbackResults,
   calls |-> calls]

\* The value the invocation that resumes finds in a variable.
Resumed(name, current) ==
  IF name \in SharedAcrossRequests THEN current ELSE parked[name]

AtAwait(p) == p \in {"AwaitDetection", "AwaitPrimary", "AwaitFallback"}
Finished(p) == p \in {"Rejected", "Threw", "Responding"}

\* The running invocation awaits or has returned; the event loop runs the
\* other one.
Switch ==
  /\ parked.pc # "none"
  /\ AtAwait(pc) \/ Finished(pc)
  /\ ~Finished(parked.pc)
  /\ parked' = Locals
  /\ running' = 3 - running
  /\ data' = parked.data
  /\ pc' = parked.pc
  /\ response' = Resumed("response", response)
  /\ tgt_langs' = Resumed("tgt_langs", tgt_langs)
  /\ detectionPreferences' = Resumed("detectionPreferences", detectionPreferences)
  /\ translatorPriority' = Resumed("translatorPriority", translatorPriority)
  /\ detectionResults' = Resumed("detectionResults", detectionResults)
  /\ detectionArrival' = Resumed("detectionArrival", detectionArrival)
  /\ languageDetections' = Resumed("languageDetections", languageDetections)
  /\ primaryDetectedLang' = Resumed("primaryDetectedLang", primaryDetectedLang)
  /\ assignment' = Resumed("assignment", assignment)
  /\ translatorOrder' = Resumed("translatorOrder", translatorOrder)
  /\ primaryResults' = Resumed("primaryResults", primaryResults)
  /\ finalTranslations' = Resumed("finalTranslations", finalTranslations)
  /\ failedLanguages' = Resumed("failedLanguages", failedLanguages)
  /\ metadata' = Resumed("metadata", metadata)
  /\ fallbackAssignment' = Resumed("fallbackAssignment", fallbackAssignment)
  /\ fallbackOrder' = Resumed("fallbackOrder", fallbackOrder)
  /\ fallbackResults' = Resumed("fallbackResults", fallbackResults)
  /\ calls' = Resumed("calls", calls)
  /\ UNCHANGED <<impl, route, env, pureVars, adapterVars>>

\* The two requests that meet: one with a source language and two targets
\* that go to two providers, one whose source language is detected.
FirstRequest == Request("Hello", Array(<<"spa", "nob">>), "eng", Absent, <<Absent, NULL>>)
SecondRequest == Request("Hello", Array(<<"lat">>), NULL, Absent, <<Array(<<"deepl">>), NULL>>)

PairInit ==
  /\ route = "multi"
  /\ impl \in Impls
  /\ env = Configurable
  /\ data = FirstRequest
  /\ pc = "Validating"
  /\ NotStarted
  /\ dataset = StaticData
  /\ normCall = NoCall
  /\ assignCalls = <<>>
  /\ parked = FreshLocals(SecondRequest)
  /\ running = 1

PairNext ==
  \/ AcceptRequest
  \/ SkipDetection
  \/ StartDetection
  \/ \E i \in 1..Len(detectionResults) :
       \E d \in DetectionOutcomes(detectionPreferences[i]) : SettleDetection(i, d)
  \/ CollectDetection
  \/ Assign
  \/ DispatchPrimary
  \/ DispatchPrimaryThrows
  \/ \E i \in 1..Len(primaryResults) :
       \E o \in CallOutcomes(translatorOrder[i].name, "primary", translatorOrder[i].langs) :
         SettlePrimary(i, o)
  \/ CollectPrimary
  \/ DispatchFallback
  \/ \E i \in 1..Len(fallbackResults) :
       \E o \in CallOutcomes(StripFallback(fallbackOrder[i].name), "fallback",
                             fallbackOrder[i].langs) :
         SettleFallback(i, o)
  \/ CollectFallback
  \/ Respond
  \/ Switch

PairSpec == PairInit /\ [][PairNext]_vars

(***************************************************************************)
(* One request in its two forms: tgt_langs as a comma-separated string and *)
(* as the array of its identifiers (multi_translator.test.js:310-331).     *)
(* The two invocations run on one worker as above.                         *)
(***************************************************************************)
\* <<the string, as its tokens; the array>>
TargetForms ==
  { << <<"spa", ",", "nob">>, <<"spa", "nob">> >>,
    << <<"lat", ",", " ", "zzz", " ">>, <<"lat", "zzz">> >> }

\* The request that carries a pair of forms: the first with a source
\* language, the second with one detector.
FormRequest(form, g) ==
  IF form[2][1] = "spa"
  THEN Request("Hello", g, "eng", Absent, <<Absent, NULL>>)
  ELSE Request("Hello", g, NULL, Absent, <<Array(<<"deepl">>), NULL>>)

FormInit ==
  /\ route = "multi"
  /\ impl \in Impls
  /\ env = Configurable
  /\ \E form \in TargetForms :
       /\ data = FormRequest(form, String(form[1]))
       /\ parked = FreshLocals(FormRequest(form, Array(form[2])))
  /\ pc = "Validating"
  /\ NotStarted
  /\ dataset = StaticData
  /\ normCall = NoCall
  /\ assignCalls = <<>>
  /\ running = 1

FormSpec == FormInit /\ [][PairNext]_vars

(***************************************************************************)
(* Vocabulary of the properties.                                           *)
(***************************************************************************)
Providers == {"deepl", "google", "m2m", "openai"}
BucketNames == Providers \cup {"unsupported"}

\* The requested-target set of an accepted request.
Requested == Range(tgt_langs)

\* assignTranslators has returned the primary assignment.
Assigned == pc \notin {"Validating", "Rejected", "Detecting", "AwaitDetection", "Assigning"}

Responded == pc = "Responding"

\* A request with a text and an array of targets.
PlainRequest ==
  /\ data.text \notin {NULL, ""}
  /\ data.tgt_langs.kind = "array"
  /\ Len(data.tgt_langs.val) > 0

TranslateCalls(pass) ==
  {i \in 1..Len(calls) : calls[i].op = "translate" /\ calls[i].pass = pass}

\* The dispatch attempts of a pass that hand lang to an adapter.
Attempts(pass, lang) == {i \in TranslateCalls(pass) : lang \in Range(calls[i].langs)}

\* The languages a list of the error record names; absent lists name none.
ErrorList(resp, key) ==
  IF key \in DOMAIN resp.errors THEN Range(resp.errors[key]) ELSE {}

FailedList(resp) ==
  UNION {Range(resp.errors[k]) : k \in DOMAIN resp.errors \ {"unsupported_target_langs"}}

\* A language the primary (fallback) results translated, and an index of the
\* first result that did.
PrimaryHits(lang) ==
  {i \in 1..Len(primaryResults) : lang \in DOMAIN primaryResults[i].translations}
FallbackHits(lang) ==
  {i \in 1..Len(fallbackResults) : lang \in DOMAIN fallbackResults[i].translations}

(***************************************************************************)
(* C1: in the final response of a request with a non-empty target list,    *)
(* the keys of the translation mapping, the unsupported list and the       *)
(* failed list of the error record are pairwise disjoint and their union   *)
(* is the requested target set.                                            *)
(***************************************************************************)
C1_EveryLanguageAccounted ==
  (Responded /\ PlainRequest) =>
    LET translated == DOMAIN response.body
        unsupported == ErrorList(response, "unsupported_target_langs")
        failed == FailedList(response)
    IN /\ translated \cap unsupported = {}
       /\ translated \cap failed = {}
       /\ unsupported \cap failed = {}
       /\ translated \cup unsupported \cup failed = Requested

(***************************************************************************)
(* C2: a request with a non-empty target list ends in Responding with      *)
(* status 200 whatever the adapters do (it never ends in an exception),    *)
(* and every translation a primary bucket returned is in the mapping built *)
(* from the primary results, whatever the sibling buckets did.  Stated for *)
(* the requests with a text and an array of targets.                       *)
(***************************************************************************)
C2_AdapterFailuresNeverAbort ==
  PlainRequest =>
  /\ pc # "Threw"
  /\ Responded => response.status = 200
  /\ pc \in {"FallbackAssigning", "AwaitFallback", "Merging", "Responding"} =>
       \A i \in 1..Len(primaryResults) :
         \A l \in DOMAIN primaryResults[i].translations :
           /\ l \in DOMAIN finalTranslations
           /\ finalTranslations[l] = primaryResults[i].translations[l]

(***************************************************************************)
(* C3: the assignment has every bucket the orchestrator reads (deepl,      *)
(* google, m2m, openai, unsupported), the buckets are pairwise disjoint,   *)
(* and every requested identifier is in one of them.                       *)
(***************************************************************************)
C3_AssignmentIsPartition ==
  (Assigned /\ PlainRequest) =>
    /\ BucketNames \subseteq DOMAIN assignment
    /\ \A a, b \in DOMAIN assignment :
         a # b => Range(assignment[a]) \cap Range(assignment[b]) = {}
    /\ UNION {Range(assignment[b]) : b \in DOMAIN assignment} = Requested

(***************************************************************************)
(* C4: every requested identifier is in the bucket of the leftmost         *)
(* provider of the priority order whose target capability set contains it, *)
(* and in unsupported exactly when no provider of the order supports it.   *)
(***************************************************************************)
\* The capability sets of section 4.2, over the identifiers in play.
Capability(p) ==
  CASE p = "deepl" -> {c \in TargetLangs :
                         \E i \in 1..Len(wikidataLanguages) :
                           /\ wikidataLanguages[i].iso = c
                           /\ \E j \in 1..Len(deeplTargets) :
                                toLowerCase(deeplTargets[j][1]) = wikidataLanguages[i].iso1}
    [] p = "google" -> TargetLangs \cap googleTranslateSupport
    [] p = "m2m" -> {c \in TargetLangs :
                       \E i \in 1..Len(wikidataLanguages) :
                         /\ wikidataLanguages[i].iso = c
                         /\ wikidataLanguages[i].iso1 \in m2mSupport}
    [] p = "openai" -> {c \in TargetLangs :
                          \E i \in 1..Len(wikidataLanguages) : wikidataLanguages[i].iso = c}
    [] OTHER -> {}

GreedyBucket(code, order) ==
  LET able == {i \in 1..Len(order) : code \in Capability(order[i])}
  IN IF able = {} THEN "unsupported" ELSE order[First(able)]

C4_AssignmentIsGreedy ==
  (Assigned /\ PlainRequest) =>
    \A code \in Requested :
      LET b == GreedyBucket(code, translatorPriority)
      IN /\ b \in DOMAIN assignment
         /\ code \in Range(assignment[b])

(***************************************************************************)
(* C5: no identifier is handed to adapters in more than one primary        *)
(* dispatch attempt and one fallback dispatch attempt, and there is no     *)
(* dispatch attempt outside these two passes.                              *)
(***************************************************************************)
C5_AtMostTwoAttempts ==
  /\ \A i \in 1..Len(calls) :
       calls[i].op = "translate" => calls[i].pass \in {"primary", "fallback"}
  /\ \A i \in 1..Len(calls) :
       calls[i].op = "translate" =>
         \A l \in Range(calls[i].langs) :
           /\ Cardinality(Attempts("primary", l)) <= 1
           /\ Cardinality(Attempts("fallback", l)) <= 1

\* A language went through both passes.
C5_Witness ==
  /\ Responded
  /\ \E l \in Requested :
       Cardinality(Attempts("primary", l)) = 1 /\ Cardinality(Attempts("fallback", l)) = 1

(***************************************************************************)
(* C6: the fallback attempt for a language that failed at its primary      *)
(* provider goes to a different provider.                                  *)
(***************************************************************************)
C6_FallbackUsesAnotherProvider ==
  \A i \in TranslateCalls("fallback") :
    \A l \in Range(calls[i].langs) :
      \A j \in Attempts("primary", l) : calls[j].provider # calls[i].provider

(***************************************************************************)
(* C7: in the final response the attribution names, for every translated   *)
(* language, exactly one provider, the one whose adapter call returned the *)
(* text in the mapping (the primary provider, or the fallback provider for *)
(* a language that failed in primary); it names no untranslated language   *)
(* and has no empty entry.                                                 *)
(***************************************************************************)
\* Provider p returned text for lang in some pass.
Supplied(p, lang, text) ==
  \/ \E i \in PrimaryHits(lang) :
       translatorOrder[i].name = p /\ primaryResults[i].translations[lang] = text
  \/ /\ PrimaryHits(lang) = {}
     /\ \E i \in FallbackHits(lang) :
          /\ StripFallback(fallbackOrder[i].name) = p
          /\ fallbackResults[i].translations[lang] = text

Occurrences(list, x) == Cardinality({i \in 1..Len(list) : list[i] = x})

C7_AttributionIsTheSupplier ==
  Responded =>
    LET tr == response.metadata.translators IN
      /\ \A l \in DOMAIN response.body :
           \E p \in DOMAIN tr :
             /\ Occurrences(tr[p], l) = 1
             /\ \A q \in DOMAIN tr \ {p} : l \notin Range(tr[q])
             /\ p \in Providers
             /\ Supplied(p, l, response.body[l])
      /\ \A p \in DOMAIN tr :
           Len(tr[p]) > 0 /\ Range(tr[p]) \subseteq DOMAIN response.body

\* Scenario C: a language failed at its primary provider and the fallback
\* provider, another one, translated it.
C7_Witness ==
  /\ Responded
  /\ \E l \in DOMAIN response.body :
       \E i \in Attempts("primary", l), j \in Attempts("fallback", l) :
         /\ calls[i].provider # calls[j].provider
         /\ l \in Range(response.metadata.translators[calls[j].provider])

(***************************************************************************)
(* C8: the text of a language in the final mapping is the text of the      *)
(* first successful adapter result for it: the primary result when there   *)
(* is one, else the first fallback result.                                 *)
(***************************************************************************)
C8_FirstSuccessfulWins ==
  Responded =>
    \A l \in Requested \cup DOMAIN response.body :
      IF PrimaryHits(l) # {}
      THEN /\ l \in DOMAIN response.body
           /\ response.body[l] = primaryResults[First(PrimaryHits(l))].translations[l]
      ELSE IF FallbackHits(l) # {}
      THEN /\ l \in DOMAIN response.body
           /\ response.body[l] = fallbackResults[First(FallbackHits(l))].translations[l]
      ELSE l \notin DOMAIN response.body

\* One language kept its primary text while another was merged from fallback.
C8_Witness ==
  /\ Responded
  /\ \E l \in DOMAIN response.body : PrimaryHits(l) # {}
  /\ \E l \in DOMAIN response.body : PrimaryHits(l) = {} /\ FallbackHits(l) # {}

(***************************************************************************)
(* C9: a request whose target set is empty after parsing (an empty array,  *)
(* an absent value, a csv string with no identifier) is rejected with 400  *)
(* "No target languages provided." and no adapter is called for it.        *)
(***************************************************************************)
NoIdentifier(raw) ==
  \/ raw.kind = "absent"
  \/ raw.kind = "array" /\ raw.val = <<>>
  \/ raw.kind = "string" /\ Range(raw.val) \subseteq {",", " "}

C9_EmptyTargetsRejected ==
  (NoIdentifier(data.tgt_langs) /\ data.text = "Hello" /\ pc # "Validating") =>
    /\ pc = "Rejected"
    /\ response.status = 400
    /\ response.error = "No target languages provided."
    /\ calls = <<>>

(***************************************************************************)
(* C10: a request whose text is empty or absent is rejected with 400 in    *)
(* Validating: no detection call, no dispatch, no translation response.    *)
(***************************************************************************)
C10_EmptyTextRejected ==
  (data.text \in {NULL, ""} /\ data.tgt_langs.kind = "array" /\ pc # "Validating") =>
    /\ pc = "Rejected"
    /\ response.status = 400
    /\ calls = <<>>

(***************************************************************************)
(* C11: the only terminal rejections are those of section 7 (empty or      *)
(* missing text, empty target set): a request with a text and a non-empty  *)
(* target list never ends rejected or in an exception, whatever its        *)
(* priority override and detection preference fields contain.              *)
(***************************************************************************)
C11_OnlyInputRejectionsAbort ==
  PlainRequest => pc \notin {"Rejected", "Threw"}

(***************************************************************************)
(* C12: a request with a non-empty target list whose detection preference  *)
(* names a provider outside google, deepl, m2m, openai is rejected with    *)
(* status 400 and an error naming the invalid preferences, and no          *)
(* detection call or provider dispatch was made for it.                    *)
(***************************************************************************)
\* The preference list the request states (lines 42-59).
StatedPreferences ==
  IF data.detection_preferences.kind = "array" THEN data.detection_preferences.val
  ELSE IF data.detection_preference \notin {NULL, "auto"} THEN <<data.detection_preference>>
  ELSE <<>>

NamesInvalidDetector ==
  \E i \in 1..Len(StatedPreferences) : StatedPreferences[i] \notin Providers

CandidateOrder ==
  IF data.detection_preferences.kind = "array" THEN data.detection_preferences.val
  ELSE IF data.detection_preference \notin {NULL, "auto"} THEN <<data.detection_preference>>
  ELSE <<"google", "deepl", "m2m", "openai">>

DetectionCollected ==
  /\ data.src_lang = NULL
  /\ pc \notin {"Validating", "Rejected", "Detecting", "AwaitDetection"}
  /\ Len(detectionResults) > 0

\* The candidates whose detection succeeded, as positions of the order.
Succeeded == {i \in 1..Len(detectionResults) : detectionResults[i] # NULL}

C13_PrimaryIsFirstInOrder ==
  DetectionCollected =>
    /\ detectionPreferences = CandidateOrder
    /\ Len(detectionResults) = Len(CandidateOrder)
    /\ primaryDetectedLang =
         IF Succeeded = {} THEN NULL ELSE detectionResults[First(Succeeded)]

\* The first detection to arrive with a language is not the one that
\* became primary: a later arrival that is earlier in the order did.
C13_Witness ==
  /\ DetectionCollected
  /\ detectionArrival # 0
  /\ detectionArrival # First(Succeeded)
  /\ detectionResults[detectionArrival] # primaryDetectedLang

(***************************************************************************)
(* C14: Detecting always completes.  A detection that fails neither keeps  *)
(* the results of the other candidates from being collected nor rejects    *)
(* the request; the handler goes on to Assigning and Dispatching, and when *)
(* no candidate detected a language no source language is passed to any    *)
(* adapter.                                                                *)
(***************************************************************************)
DetectionStarted == \E i \in 1..Len(calls) : calls[i].op = "detect"

C14_DetectingAlwaysCompletes ==
  /\ DetectionStarted => pc # "Rejected"
  /\ pc = "AwaitDetection" =>
       IF \E i \in 1..Len(detectionResults) : detectionResults[i] = PendingDetection
       THEN \A i \in 1..Len(detectionResults) :
              detectionResults[i] = PendingDetection =>
                \A d \in DetectionOutcomes(detectionPreferences[i]) :
                  ENABLED SettleDetection(i, d)
       ELSE ENABLED CollectDetection
  /\ (DetectionStarted /\ pc = "Assigning") => ENABLED Assign
  /\ (DetectionStarted /\ pc = "Dispatching") =>
       ENABLED (DispatchPrimary \/ DispatchPrimaryThrows)
  /\ DetectionCollected =>
       /\ DOMAIN languageDetections = {detectionPreferences[i] : i \in Succeeded}
       /\ \A i \in Succeeded :
            languageDetections[detectionPreferences[i]] = detectionResults[i]
       /\ Succeeded = {} =>
            \A i \in 1..Len(calls) : calls[i].op = "translate" => calls[i].src_lang = NULL

\* Every candidate failed and an adapter was dispatched all the same.
C14_Witness ==
  /\ DetectionCollected
  /\ Succeeded = {}
  /\ \E i \in 1..Len(calls) : calls[i].op = "translate" /\ calls[i].src_lang = NULL

(***************************************************************************)
(* C15: with an explicit source language no detection call is made, every  *)
(* adapter dispatched in primary and fallback receives that source         *)
(* language, and the response metadata reports it as src_lang with         *)
(* language_definition "user".                                             *)
(***************************************************************************)
C15_ExplicitSourceIsUsed ==
  data.src_lang # NULL =>
    /\ \A i \in 1..Len(calls) :
         /\ calls[i].op # "detect"
         /\ calls[i].op = "translate" => calls[i].src_lang = data.src_lang
    /\ Responded =>
         /\ response.metadata.src_lang = data.src_lang
         /\ response.metadata.language_definition = "user"

\* Both passes ran and an adapter reported a source language of its own.
C15_Witness ==
  /\ Responded
  /\ data.src_lang # NULL
  /\ TranslateCalls("fallback") # {}
  /\ \E i \in 1..Len(primaryResults) :
       /\ primaryResults[i].metadata.present
       /\ primaryResults[i].metadata.src_lang \notin {NULL, data.src_lang}

(***************************************************************************)
(* C16: Scenario E.  No source language, two detection candidates, the     *)
(* first succeeds and the second fails: the response metadata records the  *)
(* first provider's result as the primary detected source, records the     *)
(* failing provider's error in a per-provider error record, and every      *)
(* adapter dispatched afterwards received the primary detected source.     *)
(***************************************************************************)
ScenarioE ==
  /\ DetectionCollected
  /\ Len(detectionResults) = 2
  /\ detectionResults[1] # NULL
  /\ detectionResults[2] = NULL

\* The per-provider error records of a response that name the detector.
DetectionErrorRecords(resp, detector) ==
  {k \in DOMAIN resp.metadata : k \in {"detection_errors", "errors"}}
  \cup {k \in DOMAIN resp.errors : k = detector}

C16_FailedDetectionIsRecorded ==
  (ScenarioE /\ PlainRequest /\ TranslateCalls("primary") # {}) =>
    /\ \A i \in 1..Len(calls) :
         calls[i].op = "translate" => calls[i].src_lang = detectionResults[1]
    /\ Responded =>
         /\ response.metadata.detected_source_language = detectionResults[1]
         /\ response.metadata.src_lang = detectionResults[1]
         /\ detectionPreferences[1] \in DOMAIN response.metadata.language_detection
         /\ DetectionErrorRecords(response, detectionPreferences[2]) # {}

(***************************************************************************)
(* C17: a requested identifier that no provider of the priority order      *)
(* supports is never handed to an adapter in either pass, is listed in     *)
(* errors.unsupported_target_langs of the response, which has status 200,  *)
(* and the other requested languages are dispatched all the same.          *)
(***************************************************************************)
NobodySupports(code) == GreedyBucket(code, translatorPriority) = "unsupported"

C17_UnsupportedIsListedNotDispatched ==
  (Assigned /\ PlainRequest) =>
    /\ \A code \in Requested :
         NobodySupports(code) =>
           /\ Attempts("primary", code) = {}
           /\ Attempts("fallback", code) = {}
           /\ Responded =>
                /\ response.status = 200
                /\ code \in ErrorList(response, "unsupported_target_langs")
                /\ code \notin DOMAIN response.body
    /\ pc \in {"AwaitPrimary", "FallbackAssigning", "AwaitFallback", "Merging", "Responding"} =>
         \A code \in Requested :
           ~NobodySupports(code) => Cardinality(Attempts("primary", code)) = 1
    /\ Responded =>
         ErrorList(response, "unsupported_target_langs")
           = {code \in Requested : NobodySupports(code)}

\* An unknown identifier was listed while another language was translated.
C17_Witness ==
  /\ Responded
  /\ PlainRequest
  /\ \E code \in Requested :
       NobodySupports(code) /\ code \in ErrorList(response, "unsupported_target_langs")
  /\ DOMAIN response.body # {}

(***************************************************************************)
(* Properties of a request routed to one adapter.                          *)
(***************************************************************************)
AdapterReturned == route \in AdapterRoutes /\ pc = "AdapterReturned"

\* The key of the adapter's payload that carries the reply to upstream call i.
UpstreamKey(i) ==
  LET code == AdapterUpstreamTargets(sourceDetection)[i]
  IN CASE route = "deepl" -> DeeplKey(code)
       [] route = "google" -> GoogleKey(code)
       [] route = "m2m" ->
            M2mCodeMapping(M2mMapAndFilter(M2mTargets(AdapterReq)).originals, code)

\* The last upstream call reported under the key of call i.
LastFor(i) ==
  CHOOSE j \in 1..Len(upstream) :
    /\ UpstreamKey(j) = UpstreamKey(i)
    /\ \A k \in 1..Len(upstream) : UpstreamKey(k) = UpstreamKey(i) => k <= j

Translated(reply) == reply.ok /\ reply.text.t = "string" /\ reply.text.s # ""

\* The adapter's result carries the translation upstream call i received.
CarriesReply(i) ==
  /\ adapterResult.kind = "response" /\ adapterResult.status = 200
  /\ UpstreamKey(i) \in DOMAIN adapterResult.body
  /\ adapterResult.body[UpstreamKey(i)] = upstream[LastFor(i)].text

\* The adapter's result reports the target of upstream call i as failed: no
\* translation under its key, or an error text.
ReportsFailed(i) ==
  /\ adapterResult.kind = "response" /\ adapterResult.status = 200
  /\ \/ UpstreamKey(i) \notin DOMAIN adapterResult.body
     \/ ~Truthy(adapterResult.body[UpstreamKey(i)])
     \/ adapterResult.body[UpstreamKey(i)].err

\* C18: within one adapter invocation with several supported targets, when the
\* upstream call for one target fails and the call for another target
\* succeeds, the adapter's result still contains the successful target's
\* translation and reports only the failed target as failed.
C18_UpstreamFailuresAreIndependent ==
  AdapterReturned =>
    \A i, j \in 1..Len(upstream) :
      (/\ UpstreamKey(i) # UpstreamKey(j)
       /\ ~upstream[LastFor(i)].ok
       /\ j = LastFor(j) /\ Translated(upstream[j]))
      => CarriesReply(j) /\ ReportsFailed(i)

\* The targets handed to the adapter of the route, and the ones its own
\* re-check does not support.
HandedTargets ==
  IF route = "m2m" THEN M2mTargets(AdapterReq) ELSE ParseTargets(AdapterReq.tgt_langs).val

UnsupportedByAdapter ==
  CASE route = "deepl" -> DeeplMapAndFilter(HandedTargets).unsupported
    [] route = "google" -> GoogleMapAndFilter(HandedTargets).unsupported
    [] route = "m2m" -> M2mMapAndFilter(HandedTargets).unsupported

\* A mix: some target of the call is unsupported, and an upstream call was
\* made for some other target.
MixedTargets == Len(UnsupportedByAdapter) > 0 /\ Len(upstream) > 0

\* C19: an adapter handed a mix of targets it supports and targets it does not
\* support returns status 200 with the translation every supported target
\* received upstream, and lists exactly the unsupported ones, in the order
\* given, in errors.unsupported_target_langs (provider configured, every
\* upstream call answered).
C19_UnsupportedTargetIsPerLanguage ==
  (/\ AdapterReturned /\ route \in env /\ MixedTargets
   /\ \A i \in 1..Len(upstream) : upstream[i].ok)
  => /\ adapterResult.kind = "response" /\ adapterResult.status = 200
     /\ "unsupported_target_langs" \in DOMAIN adapterResult.errors
     /\ adapterResult.errors["unsupported_target_langs"] = UnsupportedByAdapter
     /\ \A i \in 1..Len(upstream) :
          Translated(upstream[LastFor(i)]) => CarriesReply(i)
     \* no translation under an unsupported target: its key is missing, or it
     \* is the source language and holds the text of the request
     /\ \A code \in Range(UnsupportedByAdapter) :
          code \in DOMAIN adapterResult.body =>
            adapterResult.body[code] = StringValue(data.text)

C19_Witness ==
  /\ AdapterReturned /\ route \in env /\ MixedTargets
  /\ \A i \in 1..Len(upstream) : Translated(upstream[i])
  /\ adapterResult.status = 200
  /\ \E i \in 1..Len(upstream) : adapterResult.body[UpstreamKey(i)] = upstream[i].text

(***************************************************************************)
(* Unconfigured providers.                                                 *)
(***************************************************************************)
\* The provider of entry e of translatorOrder or fallbackOrder lacks its key,
\* credentials or binding.
Unconfigured(e) == StripFallback(e.name) \in Configurable \ env

FailedWhole(result, e) == result.errors = e.langs /\ result.translations = EmptyObj

\* C20: when a provider is unconfigured its adapter makes no upstream call,
\* every language of its bucket is failed in that pass and passed to fallback,
\* and the request does not end in an exception or a rejection.
C20_UnconfiguredProviderFailsFast ==
  /\ (AdapterReturned /\ route \notin env) => adapterResult.upstream = <<>>
  /\ route = "multi" =>
       /\ \A i \in 1..Len(primaryResults) :
            (Unconfigured(translatorOrder[i]) /\ primaryResults[i] # Pending)
            => /\ FailedWhole(primaryResults[i], translatorOrder[i])
               /\ pc \in {"FallbackAssigning", "AwaitFallback", "Merging", "Responding"}
                  => Range(translatorOrder[i].langs) \subseteq Range(failedLanguages)
       /\ \A i \in 1..Len(fallbackResults) :
            (Unconfigured(fallbackOrder[i]) /\ fallbackResults[i] # Pending)
            => FailedWhole(fallbackResults[i], fallbackOrder[i])
       /\ (env # Configurable /\ PlainRequest) => pc \notin {"Threw", "Rejected"}

(***************************************************************************)
(* Properties of the code normalisation (PureSpec).                        *)
(***************************************************************************)
\* C21: for every provider and every canonical identifier of its capability
\* set, mapping the identifier to the provider code and mapping that code
\* back yields the identifier, also when registry entries share a 2-letter
\* code or a provider code and both are requested in the same call.
C21_NormalizationRoundTrips ==
  normCall.kind = "roundtrip" =>
    \A i \in 1..Len(normCall.targets) : normCall.canonical[i] = normCall.targets[i]

\* The region-qualified codes DeepL lists for the language of a base code.
RegionalCodes(sd, base) ==
  {sd.deeplTargets[i][1] \o "-" \o sd.deeplTargets[i][2] :
     i \in {j \in 1..Len(sd.deeplTargets) :
              Len(sd.deeplTargets[j]) = 2 /\ sd.deeplTargets[j][1] = base}}

DeeplBases(sd) == {sd.deeplTargets[i][1] : i \in 1..Len(sd.deeplTargets)}

\* The canonical identifiers whose preferred outbound code is a regional
\* code of the base.
PreferredOf(sd, base) ==
  {c \in {"eng", "por", "zho"} : deeplPreferredMap(c) \in RegionalCodes(sd, base)}

SecondCallMade == Len(assignCalls) = 2

BranchesOf(pass) == {i \in 1..Len(calls) : calls[i].pass = pass}

Joined(pass, results, pending) ==
  /\ Cardinality(BranchesOf(pass)) = Len(results)
  /\ \A i \in 1..Len(results) : results[i] # pending

PastDetecting ==
  pc \in {"Assigning", "Dispatching", "AwaitPrimary", "Threw", "FallbackAssigning",
          "AwaitFallback", "Merging", "Responding"}
PastDispatching ==
  pc \in {"Threw", "FallbackAssigning", "AwaitFallback", "Merging", "Responding"}
PastFallbackDispatching == pc \in {"Threw", "Merging", "Responding"}

OrchestratorJoins ==
  /\ PastDetecting => Joined("detect", detectionResults, PendingDetection)
  /\ PastDispatching => Joined("primary", primaryResults, Pending)
  /\ PastFallbackDispatching => Joined("fallback", fallbackResults, Pending)

AdapterJoins ==
  pc = "AdapterReturned" => \A i \in 1..Len(upstream) : upstream[i] # PendingReply

C24_FanOutsJoin == OrchestratorJoins /\ AdapterJoins

\* C25: two handleMultiRequest invocations that run concurrently do not
\* interfere: the response of each equals the response its request gets when
\* the handler runs alone on the detections and adapter results that this
\* invocation received.
RunAlone(l) ==
  LET d == l.data
      parsed == ParseTargets(d.tgt_langs)
      prefs == ParseDetectionPreferences(d)
      got == IF d.src_lang = NULL /\ Len(prefs) > 0
             THEN CollectDetections([detections |-> EmptyObj, primary |-> NULL],
                                    prefs, l.detectionResults)
             ELSE [detections |-> EmptyObj, primary |-> NULL]
      asg == AssignBy(impl, parsed.val, TranslatorPriority(d))
      read == ReadBuckets(asg, BucketReadOrder)
      acc1 == ProcessPrimary(
                [final |-> EmptyObj, failed |-> <<>>,
                 metadata |-> InitialMetadata(d, got.primary, got.detections, prefs)],
                l.primaryResults, read.order)
      fread == ReadBuckets(AssignBy(impl, acc1.failed, FallbackPriority), BucketReadOrder)
      forder == [i \in 1..Len(fread.order) |->
                   [name |-> FallbackName(fread.order[i].name),
                    langs |-> fread.order[i].langs]]
      acc2 == IF Len(acc1.failed) > 0
              THEN ProcessFallback([final |-> acc1.final, failed |-> acc1.failed,
                                    metadata |-> acc1.metadata],
                                   l.fallbackResults, forder)
              ELSE acc1
  IN IF ~parsed.isArray \/ Len(parsed.val) = 0
     THEN Reject("No target languages provided.")
     ELSE IF Len(InvalidDetectors(prefs)) > 0
     THEN Reject(InvalidDetectorsMessage(InvalidDetectors(prefs)))
     ELSE IF read.threw \/ (Len(acc1.failed) > 0 /\ fread.threw)
     THEN TypeErrorThrown
     ELSE [status |-> 200, error |-> NULL, body |-> acc2.final,
           errors |-> BuildErrors(asg), metadata |-> acc2.metadata]

Undisturbed(l) == Finished(l.pc) => l.response = RunAlone(l)

CarriesTranslation == pc = "Responding" /\ response.status = 200 /\ DOMAIN response.body # {}

C26_OriginalTextIsPreserved ==
  route = "multi" /\ data.text \notin {NULL, ""} /\ CarriesTranslation =>
    \E k \in DOMAIN response.body : response.body[k] = data.text

\* C27: metadata.detection_used_translator names the detection provider
\* whose result became the detected source language: the preferred detector
\* when its detection succeeded, null when it failed; the request is answered
\* in both cases.
DetectionRan == data.src_lang = NULL /\ Len(detectionPreferences) > 0

C27_DetectionUsedTranslatorIsTheDetector ==
  route = "multi" /\ data.text \notin {NULL, ""} /\ CarriesTranslation /\ DetectionRan =>
    response.metadata.detection_used_translator =
      IF detectionResults[1] # NULL THEN detectionPreferences[1] ELSE NULL

\* C28: the languages dispatched in FallbackDispatching are exactly the
\* languages that failed in primary Dispatching and that a provider of the
\* fallback order supports; a language translated in primary dispatch or put
\* in the primary unsupported bucket is never dispatched in fallback, and
\* FallbackDispatching is entered only when a language failed in Dispatching.
FallbackDispatched == UNION {Range(calls[i].langs) : i \in BranchesOf("fallback")}

TranslatedInPrimary ==
  UNION {DOMAIN primaryResults[i].translations : i \in 1..Len(primaryResults)}

FallbackSupported(l) == \E i \in 1..Len(FallbackPriority) : Supports(impl, FallbackPriority[i], l)

C28_FallbackTakesTheFailedLanguages ==
  /\ pc \in {"FallbackAssigning", "AwaitFallback"} \/ FallbackDispatched # {}
       => Len(failedLanguages) > 0
  /\ pc \in {"AwaitFallback", "Merging", "Responding"} =>
       /\ FallbackDispatched = {l \in Range(failedLanguages) : FallbackSupported(l)}
       /\ FallbackDispatched \cap TranslatedInPrimary = {}
       /\ FallbackDispatched \cap Range(assignment.unsupported) = {}

\* A request with a translated and a failed target is in its fallback pass.
C28_Witness ==
  /\ pc = "AwaitFallback"
  /\ FallbackDispatched # {}
  /\ TranslatedInPrimary # {}

\* C29: when every requested target is translated in primary Dispatching,
\* no fallback dispatch is made and the response carries no errors field;
\* a response has an errors field exactly when its list of unsupported
\* targets is not empty.
Answered == route = "multi" /\ pc = "Responding" /\ response.status = 200

AllTranslatedInPrimary == Range(tgt_langs) \subseteq TranslatedInPrimary

HasErrorsField == DOMAIN response.errors # {}

C29_ErrorsFieldOnlyForUnsupported ==
  Answered =>
    /\ AllTranslatedInPrimary => FallbackDispatched = {} /\ ~HasErrorsField
    /\ HasErrorsField <=> Len(assignment.unsupported) > 0

\* Two targets, on two providers, are both translated in the primary pass.
C29_Witness ==
  /\ Answered
  /\ AllTranslatedInPrimary
  /\ Len(translatorOrder) = 2

\* C30: the union of the buckets assignTranslators returns equals the set of
\* targets passed in and adds nothing to it, for every target list, and each
\* bucket keeps its identifiers in the order of the request.
BucketUnion(result) == UNION {Range(result[b]) : b \in DOMAIN result}

InRequestOrder(bucket, targets) ==
  bucket = SelectSeq(targets, LAMBDA code : code \in Range(bucket))

C30_BucketsPartitionTheTargets ==
  \A i \in 1..Len(assignCalls) :
    LET call == assignCalls[i]
    IN /\ BucketUnion(call.result) = Range(call.tgt_langs)
       /\ \A b \in DOMAIN call.result : InRequestOrder(call.result[b], call.tgt_langs)

\* C31: a canonical identifier requested more than once is collapsed: it is
\* dispatched once per pass, upstream once per adapter call, and appears once
\* in the assignment, in the attribution metadata and in the error record.
Collapsed(s) == \A i, j \in 1..Len(s) : s[i] = s[j] => i = j

AssignmentCollapsed(asg) ==
  Collapsed(asg.deepl \o asg.m2m \o asg.openai \o asg.unsupported
            \o (IF "google" \in DOMAIN asg THEN asg.google ELSE <<>>))

DispatchCollapsed(pass) ==
  \A i \in BranchesOf(pass) : Collapsed(calls[i].langs)

C31_DuplicateTargetsCollapse ==
  /\ route = "multi" =>
       /\ assignment # EmptyObj => AssignmentCollapsed(assignment)
       /\ DispatchCollapsed("primary") /\ DispatchCollapsed("fallback")
       /\ pc = "Responding" /\ response.status = 200 =>
            /\ \A p \in DOMAIN response.metadata.translators :
                 Collapsed(response.metadata.translators[p])
            /\ "unsupported_target_langs" \in DOMAIN response.errors =>
                 Collapsed(response.errors.unsupported_target_langs)
  /\ route \in AdapterRoutes /\ pc = "AdapterReturned" =>
       Collapsed(AdapterUpstreamTargets(sourceDetection))

\* C32: an adapter called with targets none of which it supports makes no
\* upstream translation call and returns status 400 with every requested
\* target listed in errors.unsupported_target_langs; tryTranslator then
\* returns every language of the bucket as failed (provider configured).
\* The call translate_with_m2m makes to detect the source language is not
\* counted as a translation of a target.
NoneSupported == Len(HandedTargets) > 0 /\ UnsupportedByAdapter = HandedTargets

C32_AllUnsupportedIsRejected ==
  (AdapterReturned /\ route \in env /\ NoneSupported) =>
    /\ upstream = <<>>
    /\ \A i \in 1..Len(adapterResult.upstream) : adapterResult.upstream[i].kind # "translate"
    /\ adapterResult.kind = "response" /\ adapterResult.status = 400
    /\ "unsupported_target_langs" \in DOMAIN adapterResult.errors
    /\ adapterResult.errors["unsupported_target_langs"] = HandedTargets
    /\ LET tried == tryTranslator(HandedTargets, AsOutcome(adapterResult, HandedTargets))
       IN tried.errors = HandedTargets /\ tried.translations = EmptyObj

(***************************************************************************)
(* The source language of a request routed to one adapter.                 *)
(***************************************************************************)
\* The provider code of an identifier as a source language, by the
\* provider's own tables; NULL when the provider does not take it.
ProviderSourceCode(sl) ==
  CASE route = "deepl" ->
         IF getDeepLSourceCode(sl) # NULL /\ getDeepLSourceCode(sl) \in deeplSources
         THEN getDeepLSourceCode(sl) ELSE NULL
    [] route = "google" ->
         IF getGoogleTranslateCode(sl) # NULL
            /\ getGoogleTranslateCode(sl) \in googleSupportedTargetsSet
         THEN getGoogleTranslateCode(sl) ELSE NULL
    [] route = "m2m" ->
         IF getISO2ForModel(sl) # NULL /\ getISO2ForModel(sl) \in m2mSupport
         THEN getISO2ForModel(sl) ELSE NULL

\* The translation calls the adapter made upstream.
AdapterTranslateCalls ==
  SelectSeq(adapterResult.upstream, LAMBDA c : c.kind = "translate")

ExplicitSource ==
  /\ AdapterReturned /\ route \in env
  /\ data.src_lang # NULL /\ data.text \notin {NULL, ""}
  /\ \A i \in 1..Len(upstream) : upstream[i].ok

\* C33: an explicit source language the provider does not support does not
\* fail the adapter call: every upstream translation call omits the source
\* parameter, errors.unsupported_source_lang holds the identifier, and every
\* supported target is still translated; a supported explicit source is sent
\* with every upstream call and metadata.src_lang equals it.
C33_UnsupportedSourceIsNotFatal ==
  ExplicitSource =>
    /\ adapterResult.kind = "response"
    /\ IF ProviderSourceCode(data.src_lang) = NULL
       THEN /\ \A i \in 1..Len(AdapterTranslateCalls) : AdapterTranslateCalls[i].source = NULL
            /\ "unsupported_source_lang" \in DOMAIN adapterResult.errors
            /\ adapterResult.errors["unsupported_source_lang"] = data.src_lang
            /\ Len(upstream) > 0 =>
                 /\ adapterResult.status = 200
                 /\ \A i \in 1..Len(upstream) : CarriesReply(i)
       ELSE /\ \A i \in 1..Len(AdapterTranslateCalls) :
                 AdapterTranslateCalls[i].source = ProviderSourceCode(data.src_lang)
            /\ Len(upstream) > 0 =>
                 /\ adapterResult.status = 200
                 /\ adapterResult.metadata.src_lang = data.src_lang

(***************************************************************************)
(* Code normalisation on unknown input.                                    *)
(***************************************************************************)
\* A 2-letter code the registry of the dataset knows, in either case.
KnownProviderCode(s) ==
  \E i \in 1..Len(dataset.languages) :
    /\ dataset.languages[i].iso1 # NULL
    /\ toUpperCase(dataset.languages[i].iso1) = toUpperCase(s)

\* C34: no code-normalisation function throws; the outbound mappings return
\* an absence value for every string that is not a canonical identifier of
\* the registry, and the inbound mappings for every string that is not a
\* provider code of it.
C34_UnknownInputYieldsAbsence ==
  normCall.kind = "mapping" =>
    LET fn == normCall.provider
        s == normCall.targets[1]
    IN /\ ~normCall.outcome.threw
       /\ (fn \in OutboundMappings /\ s \notin IdentifiersIn(dataset))
            => normCall.outcome.value = NULL
       /\ (fn \in InboundMappings /\ ~KnownProviderCode(s))
            => normCall.outcome.value = NULL

(***************************************************************************)
(* The two forms of tgt_langs.                                             *)
(***************************************************************************)
\* The two invocations are at the same point and have received the same
\* replies so far.
SameReplies ==
  /\ pc = parked.pc
  /\ detectionResults = parked.detectionResults
  /\ detectionArrival = parked.detectionArrival
  /\ primaryResults = parked.primaryResults
  /\ fallbackResults = parked.fallbackResults

\* C35: a request whose tgt_langs is a comma-separated string is handled as
\* the request whose tgt_langs is the array of the trimmed identifiers: at the
\* same point and with the same replies received, the two invocations hold
\* the same targets, assignment, dispatches, translations, metadata and
\* response.
C35_CsvTargetsAreTheArray ==
  (parked.pc # "none" /\ SameReplies) =>
    /\ tgt_langs = parked.tgt_langs
    /\ translatorPriority = parked.translatorPriority
    /\ assignment = parked.assignment
    /\ translatorOrder = parked.translatorOrder
    /\ calls = parked.calls
    /\ failedLanguages = parked.failedLanguages
    /\ fallbackAssignment = parked.fallbackAssignment
    /\ fallbackOrder = parked.fallbackOrder
    /\ finalTranslations = parked.finalTranslations
    /\ metadata = parked.metadata
    /\ response = parked.response

\* Both forms of "spa,nob" were answered after the same replies, with a
\* translation.
C35_Witness ==
  /\ parked.pc = "Responding" /\ SameReplies
  /\ data.tgt_langs.kind # parked.data.tgt_langs.kind
  /\ Len(calls) > 1
  /\ "spa" \in DOMAIN finalTranslations

(***************************************************************************)
(* The order of the fallback pass.                                         *)
(***************************************************************************)
\* The request names its own priority order.
HasOverride == data.translators.kind = "array"

\* C36: the fallback pass assigns by the fixed order m2m, google, deepl,
\* openai whatever priority the request names: every language dispatched in
\* the fallback pass goes to the first provider of that order that supports
\* it.
C36_FallbackOrderIsFixed ==
  route = "multi" =>
    \A i \in TranslateCalls("fallback") :
      \A l \in Range(calls[i].langs) :
        calls[i].provider = GreedyBucket(l, <<"m2m", "google", "deepl", "openai">>)

\* A language of a request with its own priority order is dispatched to,
\* translated by and attributed to a provider the order does not name.
C36_Witness ==
  /\ route = "multi" /\ Responded /\ HasOverride
  /\ \E i \in TranslateCalls("fallback") :
       \E l \in Range(calls[i].langs) :
         /\ calls[i].provider \notin Range(data.translators.val)
         /\ l \in DOMAIN response.body
         /\ calls[i].provider \in DOMAIN response.metadata.translators
         /\ l \in Range(response.metadata.translators[calls[i].provider])

(***************************************************************************)
(* The assignment and the re-check of the adapters.                        *)
(***************************************************************************)
\* The adapter of provider p lets target c through.
PassesRecheck(p, c) ==
  CASE p = "deepl" -> \A draft \in DeeplDrafts : DeeplRecheckIn(dataset, draft, c)
    [] p \in {"google", "m2m"} -> c \in CapabilitySetIn(dataset, p)
    [] OTHER -> TRUE

\* C37: every identifier assignTranslators places in the bucket of a provider
\* passes the support re-check of that provider's adapter.
C37_AssignmentAgreesWithAdapters ==
  \A k \in 1..Len(assignCalls) :
    \A p \in DOMAIN assignCalls[k].result \cap {"deepl", "google", "m2m"} :
      \A i \in 1..Len(assignCalls[k].result[p]) :
        PassesRecheck(p, assignCalls[k].result[p][i])

(***************************************************************************)
(* tryTranslator on one bucket.                                            *)
(***************************************************************************)
\* The adapter result counts for lang: status below 400, a non-empty value
\* under lang, and no "Error translating" in it.
CountsAsTranslated(outcome, lang) ==
  /\ outcome.kind = "ok"
  /\ lang \in DOMAIN outcome.body
  /\ outcome.body[lang].t # "undefined"
  /\ ~(outcome.body[lang].t = "string" /\ outcome.body[lang].s = "")
  /\ ~outcome.body[lang].err

\* C38: tryTranslator returns a language of its bucket as translated exactly
\* when the adapter result counts for it, as failed in every other case, and
\* the translated and the failed languages partition the bucket.
C38_TryTranslatorClassifies ==
  normCall.kind = "try" =>
    LET r == normCall.result IN
      /\ \A l \in Range(normCall.targets) :
           /\ l \in DOMAIN r.translations <=> CountsAsTranslated(normCall.outcome, l)
           /\ l \in Range(r.errors) <=> ~CountsAsTranslated(normCall.outcome, l)
      /\ DOMAIN r.translations \cup Range(r.errors) = Range(normCall.targets)
      /\ DOMAIN r.translations \cap Range(r.errors) = {}

====
